---- MODULE Spec2Model ----
(***************************************************************************)
(* Model of the Smart Money Concepts analysis of signal_scanner            *)
(* (python/signal_scanner/strategies/smc.py and types.py) and of the scan  *)
(* guard of python/signal_scanner/scanner.py.                              *)
(*                                                                         *)
(* Prices are integers.  Every input price is a multiple of Tick, so that  *)
(* the products by 0.5 and 2.5 the code computes (half a zone size, the    *)
(* 2.5 x risk fallback target) are integers as well and the arithmetic of  *)
(* the model is exact.  Ratios the code keeps as floats (body_ratio,       *)
(* risk_reward_ratio, freshness) are kept as records [num, den] and        *)
(* compared by cross-multiplication.                                       *)
(***************************************************************************)
EXTENDS Integers, Sequences, FiniteSets, TLC

VARIABLES
    op,      \* the function of smc.py / types.py that was called last
    args,    \* the arguments of that call
    ret,     \* the value it returned
    cfg,     \* the SMCClarityConfig in force
    clock,   \* the wall clock, time.time(), in milliseconds
    results, \* the StrategyResults analyze has returned, oldest first
    scanner, \* the fields of the SignalScanner
    calls    \* where each call of scan_markets stands

vars == <<op, args, ret, cfg, clock, results, scanner, calls>>

-----------------------------------------------------------------------------
(* Arithmetic helpers *)

Abs(x) == IF x < 0 THEN -x ELSE x

MinOf(S) == CHOOSE x \in S : \A y \in S : x <= y

MaxOf(S) == CHOOSE x \in S : \A y \in S : x >= y

Range(s) == {s[i] : i \in 1..Len(s)}

\* a ratio num/den with den > 0
Ratio(n, d) == [num |-> n, den |-> d]

RatLt(r, n, d) == r.num * d < n * r.den

RatGe(r, n, d) == r.num * d >= n * r.den

RatGt(r, n, d) == r.num * d > n * r.den

\* Optional[float]: the empty sequence is None
None == <<>>

Some(v) == <<v>>

\* Python truthiness of an Optional[float]: None and 0.0 are both falsy
Truthy(o) == o # None /\ o[1] # 0

-----------------------------------------------------------------------------
(* types.py: Candle *)

Candle(ts, o, h, l, c) ==
    [timestamp |-> ts, open |-> o, high |-> h, low |-> l, close |-> c]

is_bullish(c) == c.close > c.open

is_bearish(c) == c.close < c.open

body_size(c) == Abs(c.close - c.open)

total_range(c) == c.high - c.low

upper_wick(c) == c.high - (IF c.open > c.close THEN c.open ELSE c.close)

lower_wick(c) == (IF c.open < c.close THEN c.open ELSE c.close) - c.low

body_ratio(c) ==
    IF total_range(c) = 0 THEN Ratio(0, 1)
    ELSE Ratio(body_size(c), total_range(c))

-----------------------------------------------------------------------------
(* types.py: Zone *)

Zone(top, bottom, type, strength, origin, mitigated, created) ==
    [top_price |-> top, bottom_price |-> bottom, type |-> type,
     strength |-> strength, origin_candle_index |-> origin, touches |-> 0,
     mitigated |-> mitigated, created_at |-> created]

zone_size(z) == z.top_price - z.bottom_price

\* price_in_zone with a margin of one zone size on either side
price_in_zone_margin(z, price) ==
    /\ z.bottom_price - zone_size(z) <= price
    /\ price <= z.top_price + zone_size(z)

price_in_zone(z, price) == z.bottom_price <= price /\ price <= z.top_price

\* overlaps_with with strict bounds: zones that only touch do not overlap
overlaps_with_strict(z, other) ==
    ~(z.top_price <= other.bottom_price \/ z.bottom_price >= other.top_price)

overlaps_with(z, other) ==
    ~(z.top_price < other.bottom_price \/ z.bottom_price > other.top_price)


\* milliseconds per hour: timestamps are in milliseconds
MsPerHour == 3600000

\* the age computed in minutes instead of hours
get_age_hours_minutes(z, current_timestamp) ==
    IF z.created_at = 0 THEN Ratio(0, 1)
    ELSE Ratio(current_timestamp - z.created_at, MsPerHour \div 60)

\* the zone's age in hours, as a ratio
get_age_hours(z, current_timestamp) ==
    IF z.created_at = 0 THEN Ratio(0, 1)
    ELSE Ratio(current_timestamp - z.created_at, MsPerHour)

\* 1.0 - age / max_age_hours, and 0.0 once age >= max_age_hours
freshness_score(z, current_timestamp, max_age_hours) ==
    LET age == get_age_hours(z, current_timestamp)
    IN  IF RatGe(age, max_age_hours, 1) THEN Ratio(0, 1)
        ELSE Ratio(max_age_hours * age.den - age.num, max_age_hours * age.den)

-----------------------------------------------------------------------------
(* smc.py: detect_entry *)

NoSetup == [none |-> TRUE]

EntryResult(valid, setup, reasoning) ==
    [has_valid_entry |-> valid, setup |-> setup, reasoning |-> reasoning]

\* the confirmations of the last candle, in the order the code tests them;
\* each is <<text, bonus, entry type it sets or "">>
entry_confirmations(last_candle, prev_candle, zone, direction, price_at_zone) ==
    (IF price_at_zone
        THEN << <<IF zone.type = "demand" THEN "Price at demand zone"
                  ELSE "Price at supply zone", 10, "">> >>
        ELSE << >>)
    \o
    (IF direction = "buy"
     THEN
        (IF is_bullish(last_candle) /\ RatGe(body_ratio(last_candle), 1, 2)
            THEN << <<"Strong bullish momentum candle", 10, "">> >> ELSE << >>)
        \o (IF last_candle.close > prev_candle.high
            THEN << <<"Closed above previous high", 10, "choch">> >> ELSE << >>)
        \o (IF lower_wick(last_candle) > body_size(last_candle)
            THEN << <<"Bullish rejection wick", 5, "">> >> ELSE << >>)
        \o (IF last_candle.low < prev_candle.low
               /\ last_candle.close > prev_candle.close
            THEN << <<"Liquidity sweep followed by recovery", 15,
                      "liquidity_sweep">> >> ELSE << >>)
     ELSE
        (IF is_bearish(last_candle) /\ RatGe(body_ratio(last_candle), 1, 2)
            THEN << <<"Strong bearish momentum candle", 10, "">> >> ELSE << >>)
        \o (IF last_candle.close < prev_candle.low
            THEN << <<"Closed below previous low", 10, "choch">> >> ELSE << >>)
        \o (IF upper_wick(last_candle) > body_size(last_candle)
            THEN << <<"Bearish rejection wick", 5, "">> >> ELSE << >>)
        \o (IF last_candle.high > prev_candle.high
               /\ last_candle.close < prev_candle.close
            THEN << <<"Liquidity sweep followed by drop", 15,
                      "liquidity_sweep">> >> ELSE << >>))

RECURSIVE SumBonus(_)
SumBonus(cs) == IF cs = << >> THEN 0 ELSE cs[1][2] + SumBonus(Tail(cs))

\* the first assignment to entry_type wins
FirstEntryType(cs, acc) ==
    LET typed == {i \in 1..Len(cs) : cs[i][3] # ""}
    IN  IF typed = {} THEN acc ELSE cs[MinOf(typed)][3]

\* the last assignment to entry_type wins
RECURSIVE LastEntryType(_, _)
LastEntryType(cs, acc) ==
    IF cs = << >> THEN acc
    ELSE LastEntryType(Tail(cs), IF cs[1][3] = "" THEN acc ELSE cs[1][3])

\* the confidence floor detect_entry compares with (a literal of the code)
EntryConfidenceGate == 60

\* the cap detect_entry puts on the confidence of a setup
EntryConfidenceCap == 95

\* stop_loss half a zone inside the zone instead of half a zone beyond it
entry_stop_loss_inside(zone, direction) ==
    IF direction = "buy"
    THEN zone.bottom_price + (zone_size(zone) \div 2)
    ELSE zone.top_price - (zone_size(zone) \div 2)

\* stop_loss of detect_entry
entry_stop_loss(zone, direction) ==
    IF direction = "buy"
    THEN zone.bottom_price - (zone_size(zone) \div 2)
    ELSE zone.top_price + (zone_size(zone) \div 2)

\* take_profit with the fallback at 2 x risk instead of 2.5 x risk
entry_take_profit_2x(zone, direction, entry_price, target_price, all_zones) ==
    LET stop_loss == entry_stop_loss(zone, direction)
    IN  IF direction = "buy"
        THEN IF Truthy(target_price) /\ target_price[1] > entry_price
             THEN target_price[1]
             ELSE LET nearest_supply ==
                        {z \in Range(all_zones) :
                            z.type = "supply" /\ z.bottom_price > entry_price}
                  IN  IF nearest_supply # {}
                      THEN MinOf({z.bottom_price : z \in nearest_supply})
                      ELSE entry_price + ((entry_price - stop_loss) * 2)
        ELSE IF Truthy(target_price) /\ target_price[1] < entry_price
             THEN target_price[1]
             ELSE LET nearest_demand ==
                        {z \in Range(all_zones) :
                            z.type = "demand" /\ z.top_price < entry_price}
                  IN  IF nearest_demand # {}
                      THEN MaxOf({z.top_price : z \in nearest_demand})
                      ELSE entry_price - ((stop_loss - entry_price) * 2)

\* take_profit of detect_entry
entry_take_profit(zone, direction, entry_price, target_price, all_zones) ==
    LET stop_loss == entry_stop_loss(zone, direction)
    IN  IF direction = "buy"
        THEN IF Truthy(target_price) /\ target_price[1] > entry_price
             THEN target_price[1]
             ELSE LET nearest_supply ==
                        {z \in Range(all_zones) :
                            z.type = "supply" /\ z.bottom_price > entry_price}
                  IN  IF nearest_supply # {}
                      THEN MinOf({z.bottom_price : z \in nearest_supply})
                      ELSE entry_price + (((entry_price - stop_loss) * 5) \div 2)
        ELSE IF Truthy(target_price) /\ target_price[1] < entry_price
             THEN target_price[1]
             ELSE LET nearest_demand ==
                        {z \in Range(all_zones) :
                            z.type = "demand" /\ z.top_price < entry_price}
                  IN  IF nearest_demand # {}
                      THEN MaxOf({z.top_price : z \in nearest_demand})
                      ELSE entry_price - (((stop_loss - entry_price) * 5) \div 2)

\* rr_ratio = reward / risk if risk > 0 else 0
entry_rr_ratio(entry_price, stop_loss, take_profit) ==
    LET risk == Abs(entry_price - stop_loss)
        reward == Abs(take_profit - entry_price)
    IN  IF risk > 0 THEN Ratio(reward, risk) ELSE Ratio(0, 1)

\* the R:R gate: rr_ratio < 1.5 rejects
entry_rr_too_low(rr) == RatLt(rr, 3, 2)

detect_entry(candles, zone, direction, target_price, all_zones) ==
    IF Len(candles) < 5
    THEN EntryResult(FALSE, NoSetup, <<"Insufficient candles">>)
    ELSE
    LET current_price == candles[Len(candles)].close
        price_at_zone == price_in_zone(zone, current_price)
        price_near_zone ==
            \/ 2 * Abs(current_price - zone.top_price) < zone_size(zone)
            \/ 2 * Abs(current_price - zone.bottom_price) < zone_size(zone)
    IN
    IF ~(price_at_zone \/ price_near_zone)
    THEN EntryResult(FALSE, NoSetup, <<"Price not at zone">>)
    ELSE
    LET last_candle == candles[Len(candles)]
        prev_candle == candles[Len(candles) - 1]
        found == entry_confirmations(last_candle, prev_candle, zone,
                                     direction, price_at_zone)
        confidence == 50 + SumBonus(found)
        entry_type == LastEntryType(found, "zone_touch")
        confirmations == [i \in 1..Len(found) |-> found[i][1]]
    IN
    IF confidence < EntryConfidenceGate
    THEN EntryResult(FALSE, NoSetup, <<"Confidence too low", confidence>>)
    ELSE
    LET entry_price == current_price
        stop_loss == entry_stop_loss(zone, direction)
        take_profit == entry_take_profit(zone, direction, entry_price,
                                         target_price, all_zones)
        rr_ratio == entry_rr_ratio(entry_price, stop_loss, take_profit)
    IN
    IF entry_rr_too_low(rr_ratio)
    THEN EntryResult(FALSE, NoSetup, <<"R:R too low", rr_ratio>>)
    ELSE EntryResult(TRUE,
            [direction |-> direction,
             entry_type |-> entry_type,
             entry_price |-> entry_price,
             stop_loss |-> stop_loss,
             take_profit |-> take_profit,
             risk_reward_ratio |-> rr_ratio,
             confidence |-> IF confidence < EntryConfidenceCap
                            THEN confidence ELSE EntryConfidenceCap,
             entry_zone |-> zone,
             confirmations |-> confirmations],
            <<"Entry detected", entry_type, confidence, rr_ratio>>
                \o confirmations)

-----------------------------------------------------------------------------
(* smc.py: detect_swing_points, classify_swing_points, determine_trend *)

\* candles[i] with Python's index i, which starts at 0
At(candles, i) == candles[i + 1]

SwingPoint(price, index, is_high, timestamp, swing_type, swing_size) ==
    [price |-> price, index |-> index, is_high |-> is_high,
     timestamp |-> timestamp, swing_type |-> swing_type,
     swing_size |-> swing_size]

\* swing_type of a swing that is not classified
Unclassified == "None"

is_swing_high(candles, i, lookback) ==
    \A j \in 1..lookback :
        ~(At(candles, i).high <= At(candles, i - j).high
            \/ At(candles, i).high <= At(candles, i + j).high)

is_swing_low(candles, i, lookback) ==
    \A j \in 1..lookback :
        ~(At(candles, i).low >= At(candles, i - j).low
            \/ At(candles, i).low >= At(candles, i + j).low)

\* the swing points of candle i: the high first, then the low
swings_at(candles, i, lookback) ==
    (IF is_swing_high(candles, i, lookback)
        THEN <<SwingPoint(At(candles, i).high, i, TRUE,
                          At(candles, i).timestamp, Unclassified, 0)>>
        ELSE << >>)
    \o (IF is_swing_low(candles, i, lookback)
        THEN <<SwingPoint(At(candles, i).low, i, FALSE,
                          At(candles, i).timestamp, Unclassified, 0)>>
        ELSE << >>)

\* the loop over i in range(from, to)
RECURSIVE SwingsFrom(_, _, _, _)
SwingsFrom(candles, from, to, lookback) ==
    IF from >= to THEN << >>
    ELSE swings_at(candles, from, lookback)
            \o SwingsFrom(candles, from + 1, to, lookback)

\* a detector that looks at every candle and compares it with the
\* neighbours that exist
RECURSIVE SwingsClamped(_, _, _)
SwingsClamped(candles, i, lookback) ==
    IF i >= Len(candles) THEN << >>
    ELSE LET near == {j \in 1..lookback : i - j >= 0 /\ i + j < Len(candles)}
             hi == \A j \in near :
                      /\ At(candles, i).high > At(candles, i - j).high
                      /\ At(candles, i).high > At(candles, i + j).high
         IN  (IF hi THEN <<SwingPoint(At(candles, i).high, i, TRUE,
                               At(candles, i).timestamp, Unclassified, 0)>>
                    ELSE << >>)
             \o SwingsClamped(candles, i + 1, lookback)

detect_swing_points_clamped(candles, lookback) ==
    SwingsClamped(candles, 0, lookback)

detect_swing_points(candles, lookback) ==
    IF Len(candles) < lookback * 2 + 1 THEN << >>
    ELSE SwingsFrom(candles, lookback, Len(candles) - lookback, lookback)

\* price > tracker for a tracker seeded with -infinity (None)
AboveTracker(price, tracker) == tracker = None \/ price > tracker[1]

\* price < tracker for a tracker seeded with +infinity (None)
BelowTracker(price, tracker) == tracker = None \/ price < tracker[1]

\* the trackers all seeded with 0
swing_seed_zero ==
    [last_higher_high |-> Some(0), last_lower_low |-> Some(0),
     last_higher_low |-> Some(0), last_lower_high |-> Some(0),
     prev_high_price |-> None, prev_low_price |-> None]

\* the running extremes before the first swing: -inf, +inf, -inf, +inf
swing_seed ==
    [last_higher_high |-> None, last_lower_low |-> None,
     last_higher_low |-> None, last_lower_high |-> None,
     prev_high_price |-> None, prev_low_price |-> None]

\* one pass of the loop: <<the classified swing, the trackers after it>>
classify_step(sp, t) ==
    IF sp.is_high
    THEN LET swing_size == IF t.prev_high_price # None
                           THEN Abs(sp.price - t.prev_high_price[1]) ELSE 0
             t1 == [t EXCEPT !.prev_high_price = Some(sp.price)]
         IN  IF AboveTracker(sp.price, t.last_higher_high)
             THEN <<[sp EXCEPT !.swing_type = "HH", !.swing_size = swing_size],
                    [t1 EXCEPT !.last_higher_high = Some(sp.price),
                               !.last_lower_high = Some(sp.price)]>>
             ELSE IF BelowTracker(sp.price, t.last_lower_high)
             THEN <<[sp EXCEPT !.swing_type = "LH", !.swing_size = swing_size],
                    [t1 EXCEPT !.last_lower_high = Some(sp.price)]>>
             ELSE <<[sp EXCEPT !.swing_type = "LH", !.swing_size = swing_size],
                    t1>>
    ELSE LET swing_size == IF t.prev_low_price # None
                           THEN Abs(sp.price - t.prev_low_price[1]) ELSE 0
             t1 == [t EXCEPT !.prev_low_price = Some(sp.price)]
         IN  IF BelowTracker(sp.price, t.last_lower_low)
             THEN <<[sp EXCEPT !.swing_type = "LL", !.swing_size = swing_size],
                    [t1 EXCEPT !.last_lower_low = Some(sp.price),
                               !.last_higher_low = Some(sp.price)]>>
             ELSE IF AboveTracker(sp.price, t.last_higher_low)
             THEN <<[sp EXCEPT !.swing_type = "HL", !.swing_size = swing_size],
                    [t1 EXCEPT !.last_higher_low = Some(sp.price)]>>
             ELSE <<[sp EXCEPT !.swing_type = "HL", !.swing_size = swing_size],
                    t1>>

RECURSIVE ClassifyFrom(_, _)
ClassifyFrom(swing_points, t) ==
    IF swing_points = << >> THEN << >>
    ELSE LET step == classify_step(swing_points[1], t)
         IN  <<step[1]>> \o ClassifyFrom(Tail(swing_points), step[2])

classify_swing_points(swing_points) ==
    IF Len(swing_points) = 0 THEN swing_points
    ELSE ClassifyFrom(swing_points, swing_seed)

\* swing_points[-n:]
\* the whole list in place of its last n elements
LastAll(s, n) == s

LastN(s, n) == IF Len(s) <= n THEN s ELSE SubSeq(s, Len(s) - n + 1, Len(s))

CountType(swings, types) ==
    Cardinality({i \in 1..Len(swings) : swings[i].swing_type \in types})

\* the candles are not read
determine_trend(candles, swing_points) ==
    IF Len(swing_points) < 4 THEN "sideways"
    ELSE LET recent == LastN(swing_points, 6)
             hh_count == CountType(recent, {"HH"})
             hl_count == CountType(recent, {"HL"})
             lh_count == CountType(recent, {"LH"})
             ll_count == CountType(recent, {"LL"})
         IN  IF hh_count >= 1 /\ hl_count >= 1
                    /\ (hh_count + hl_count) > (lh_count + ll_count)
             THEN "bullish"
             ELSE IF ll_count >= 1 /\ lh_count >= 1
                    /\ (ll_count + lh_count) > (hh_count + hl_count)
             THEN "bearish"
             ELSE "sideways"

-----------------------------------------------------------------------------
(* smc.py: filter_overlapping_zones *)

\* strength_order.get(z.strength, 0)
strength_order(strength) ==
    CASE strength = "strong" -> 3
      [] strength = "moderate" -> 2
      [] strength = "weak" -> 1
      [] OTHER -> 0

\* the sort key with the origin not negated: the most recent origin first
zone_key_before_recent(a, b) ==
    \/ strength_order(a.strength) > strength_order(b.strength)
    \/ /\ strength_order(a.strength) = strength_order(b.strength)
       /\ a.origin_candle_index > b.origin_candle_index

\* a sorts strictly before b under key (strength_order, -origin_candle_index)
\* with reverse=True: the larger key first
zone_key_before(a, b) ==
    \/ strength_order(a.strength) > strength_order(b.strength)
    \/ /\ strength_order(a.strength) = strength_order(b.strength)
       /\ (-a.origin_candle_index) > (-b.origin_candle_index)

\* sorted() is stable, also with reverse=True: x goes behind every element
\* whose key is not smaller
RECURSIVE InsertZone(_, _)
InsertZone(sorted, x) ==
    IF sorted = << >> THEN <<x>>
    ELSE IF zone_key_before(x, sorted[1])
         THEN <<x>> \o sorted
         ELSE <<sorted[1]>> \o InsertZone(Tail(sorted), x)

RECURSIVE SortZones(_, _)
SortZones(zones, acc) ==
    IF zones = << >> THEN acc
    ELSE SortZones(Tail(zones), InsertZone(acc, zones[1]))

RECURSIVE KeepNonOverlapping(_, _)
KeepNonOverlapping(sorted_zones, filtered) ==
    IF sorted_zones = << >> THEN filtered
    ELSE LET zone == sorted_zones[1]
             has_overlap == \E i \in 1..Len(filtered) :
                                overlaps_with(zone, filtered[i])
         IN  KeepNonOverlapping(Tail(sorted_zones),
                IF has_overlap THEN filtered ELSE Append(filtered, zone))

filter_overlapping_zones(zones) ==
    IF Len(zones) <= 1 THEN zones
    ELSE KeepNonOverlapping(SortZones(zones, << >>), << >>)

-----------------------------------------------------------------------------
(* smc.py: detect_zones *)

ZoneResult(tradable, supply, demand, all_zones, reasoning) ==
    [tradable_zones |-> tradable,
     unmitigated_supply |-> supply,
     unmitigated_demand |-> demand,
     all_zones |-> all_zones, reasoning |-> reasoning]

\* fewest candles detect_zones works on
ZoneMinCandles == 10

\* max age of Zone.freshness_score when called without one
DefaultMaxAgeHours == 168

\* the mitigation scan looking only at the last candle of the series
zone_mitigated_last(candles, i, zone) ==
    LET j == Len(candles) - 1
    IN  /\ j >= i + 1
        /\ IF zone.type = "demand"
           THEN At(candles, j).low < zone.bottom_price
           ELSE At(candles, j).high > zone.top_price

\* the scan of the candles after the impulse candle i for one that
\* trades through the far side of the zone
zone_mitigated(candles, i, zone) ==
    \E j \in (i + 1)..(Len(candles) - 1) :
        IF zone.type = "demand"
        THEN At(candles, j).low < zone.bottom_price
        ELSE At(candles, j).high > zone.top_price

\* one pass of the loop body: the zone created at impulse candle i, if any
zone_at(candles, i) ==
    LET candle == At(candles, i)
        prev_candle == At(candles, i - 1)
        strength == IF RatGt(body_ratio(candle), 7, 10)
                    THEN "strong" ELSE "moderate"
        demand == Zone(prev_candle.high,
                       MinOf({prev_candle.low, At(candles, i - 2).low}),
                       "demand", strength, i - 1, FALSE,
                       prev_candle.timestamp)
        supply == Zone(MaxOf({prev_candle.high, At(candles, i - 2).high}),
                       prev_candle.low,
                       "supply", strength, i - 1, FALSE,
                       prev_candle.timestamp)
    IN  IF RatLt(body_ratio(candle), 6, 10) THEN << >>
        ELSE IF ~(2 * body_size(candle) > 3 * body_size(prev_candle))
        THEN << >>
        ELSE IF is_bullish(candle)
        THEN <<[demand EXCEPT
                  !.mitigated = zone_mitigated(candles, i, demand)]>>
        ELSE IF is_bearish(candle)
        THEN <<[supply EXCEPT
                  !.mitigated = zone_mitigated(candles, i, supply)]>>
        ELSE << >>

\* the loop for i in range(from, to)
RECURSIVE ZonesFrom(_, _, _)
ZonesFrom(candles, from, to) ==
    IF from >= to THEN << >>
    ELSE zone_at(candles, from) \o ZonesFrom(candles, from + 1, to)

\* freshness < 0.1 for a freshness num/den with 0 <= num
freshness_below_tenth(f) == f.num <= (f.den - 1) \div 10

\* tradability with a zone exactly 3 zone sizes away still in reach
zone_is_tradable_reach(zone, control, current_price, current_timestamp) ==
    /\ ~zone.mitigated
    /\ \/ current_timestamp <= 0
       \/ ~freshness_below_tenth(
              freshness_score(zone, current_timestamp, DefaultMaxAgeHours))
    /\ \/ zone.type = "demand" /\ control \in {"buyers", "neutral"}
       \/ zone.type = "supply" /\ control \in {"sellers", "neutral"}
    /\ Abs(2 * current_price - zone.top_price - zone.bottom_price)
          <= 6 * zone_size(zone)

zone_is_tradable(zone, control, current_price, current_timestamp) ==
    /\ ~zone.mitigated
    /\ \/ current_timestamp <= 0
       \/ ~freshness_below_tenth(
              freshness_score(zone, current_timestamp, DefaultMaxAgeHours))
    /\ \/ zone.type = "demand" /\ control \in {"buyers", "neutral"}
       \/ zone.type = "supply" /\ control \in {"sellers", "neutral"}
    /\ Abs(2 * current_price - zone.top_price - zone.bottom_price)
          < 6 * zone_size(zone)

\* detect_zones without the test of the number of candles
detect_zones_unguarded(candles, control, current_price, filter_overlaps) ==
    LET zones == IF filter_overlaps
                 THEN filter_overlapping_zones(
                          ZonesFrom(candles, 2, Len(candles) - 1))
                 ELSE ZonesFrom(candles, 2, Len(candles) - 1)
    IN  ZoneResult(<< >>, << >>, << >>, zones,
                   <<<<"Found total zones", Len(zones)>>>>)

detect_zones(candles, control, current_price, filter_overlaps) ==
    IF Len(candles) < ZoneMinCandles
    THEN ZoneResult(<< >>, << >>, << >>, << >>, <<"Insufficient candles">>)
    ELSE
    LET current_timestamp == At(candles, Len(candles) - 1).timestamp
        \* the statements after the filter, on the zones it left
        sorted(zones) ==
            LET unmitigated_supply ==
                    SelectSeq(zones,
                              LAMBDA z : z.type = "supply" /\ ~z.mitigated)
                unmitigated_demand ==
                    SelectSeq(zones,
                              LAMBDA z : z.type = "demand" /\ ~z.mitigated)
                tradable_zones ==
                    SelectSeq(zones, LAMBDA z :
                        zone_is_tradable(z, control, current_price,
                                         current_timestamp))
            IN  ZoneResult(tradable_zones, unmitigated_supply,
                           unmitigated_demand, zones,
                           <<<<"Found total zones", Len(zones)>>,
                             <<"Unmitigated", Len(unmitigated_supply),
                               Len(unmitigated_demand)>>,
                             <<"Tradable zones", Len(tradable_zones)>>>>)
        \* the filter, on the zones the loop found
        filtered(found) ==
            sorted(IF filter_overlaps THEN filter_overlapping_zones(found)
                   ELSE found)
    IN  filtered(ZonesFrom(candles, 2, Len(candles) - 1))

-----------------------------------------------------------------------------
(* smc.py: refine_zone *)

\* an exception that leaves the function
Raised(what) == [raised |-> what]

IsRaised(r) == "raised" \in DOMAIN r

RefinementResult(refined_zone, original_zone, was_refined, reasoning) ==
    [refined_zone |-> refined_zone, original_zone |-> original_zone,
     was_refined |-> was_refined, reasoning |-> reasoning]

\* the candles that open or close inside the zone, in their order
RECURSIVE zone_candles_ltf(_, _)
zone_candles_ltf(major_zone, refinement_candles) ==
    IF refinement_candles = << >> THEN << >>
    ELSE LET c == refinement_candles[1]
             rest == zone_candles_ltf(major_zone, Tail(refinement_candles))
         IN  IF \/ major_zone.bottom_price <= c.close
                    /\ c.close <= major_zone.top_price
                \/ major_zone.bottom_price <= c.open
                    /\ c.open <= major_zone.top_price
             THEN <<c>> \o rest ELSE rest

\* <<refined_top, refined_bottom>>, swapped if inverted
refined_bounds(major_zone, ltf) ==
    LET last3 == LastN(ltf, 3)
        top == IF major_zone.type = "demand"
               THEN MinOf({c.high : c \in Range(last3)})
               ELSE MaxOf({c.high : c \in Range(ltf)})
        bottom == IF major_zone.type = "demand"
                  THEN MinOf({c.low : c \in Range(ltf)})
                  ELSE MaxOf({c.low : c \in Range(last3)})
    IN  IF top <= bottom THEN <<bottom, top>> ELSE <<top, bottom>>

\* zone_reduction < 0.1, where zone_reduction = 1 - refined_size / zone_size
\* is computed in binary floating point.  The literal 0.1 is the double just
\* above 1/10; a quotient of exactly 9/10 is rounded to the double just above
\* 9/10, and 1 minus it lies below the literal.  A quotient that differs
\* from 9/10 differs from it by far more than the rounding.  So the test
\* is true exactly when refined_size / zone_size >= 9/10.
zone_reduction_too_small(refined_size, size) == 10 * refined_size >= 9 * size

refine_zone(major_zone, zone_candles, refinement_candles) ==
    IF refinement_candles = << >>
    THEN RefinementResult(None, major_zone, FALSE,
                          <<"No refinement candles available">>)
    ELSE
    LET ltf == zone_candles_ltf(major_zone, refinement_candles)
    IN
    IF Len(ltf) < 3
    THEN RefinementResult(None, major_zone, FALSE,
            <<"Not enough LTF candles in zone for refinement">>)
    ELSE
    LET b == refined_bounds(major_zone, ltf)
        refined_top == b[1]
        refined_bottom == b[2]
    IN
    IF zone_size(major_zone) = 0
    THEN Raised("ZeroDivisionError")
    ELSE IF zone_reduction_too_small(refined_top - refined_bottom,
                                     zone_size(major_zone))
    THEN RefinementResult(None, major_zone, FALSE,
            <<"Refinement did not significantly reduce zone size">>)
    ELSE RefinementResult(
            Some(Zone(refined_top, refined_bottom, major_zone.type,
                      major_zone.strength, major_zone.origin_candle_index,
                      FALSE, 0)),
            major_zone, TRUE,
            <<"Refined zone", refined_top, refined_bottom>>)

-----------------------------------------------------------------------------
(* smc.py: clarity of a timeframe *)

RECURSIVE Gcd(_, _)
Gcd(a, b) == IF b = 0 THEN a ELSE Gcd(b, a % b)

\* the ratio in lowest terms
Reduced(r) ==
    LET g == Gcd(r.num, r.den) IN Ratio(r.num \div g, r.den \div g)

RatAdd(a, b) == Reduced(Ratio(a.num * b.den + b.num * a.den, a.den * b.den))

RatScale(k, r) == Reduced(Ratio(k * r.num, r.den))

\* round(): to the nearest integer, a tie to the even one
round_half_even(r) ==
    LET q == r.num \div r.den
        rem == r.num % r.den
    IN  IF 2 * rem < r.den THEN q
        ELSE IF 2 * rem > r.den THEN q + 1
        ELSE IF q % 2 = 0 THEN q ELSE q + 1

\* the number a reasoning line prints for a ratio: f"{ratio * 100:.0f}"
Percent(r) == round_half_even(RatScale(100, r))

RECURSIVE SumTo(_, _)
SumTo(f, n) == IF n = 0 THEN 0 ELSE f[n] + SumTo(f, n - 1)

ClarityResult(score, is_clear, trend, zone, structure, reasoning) ==
    [score |-> score, is_clear |-> is_clear, trend_consistency |-> trend,
     zone_clarity |-> zone, structure_clarity |-> structure,
     reasoning |-> reasoning]

calculate_weighted_trend_consistency(swing_points, trend, use_recency, use_size_weight) ==
    IF Len(swing_points) < 4 THEN Ratio(0, 1)
    ELSE
    LET recent_swings == LastN(swing_points, 8)
        n == Len(recent_swings)
        largest == MaxOf({recent_swings[i].swing_size : i \in 1..n})
        max_swing_size == IF largest = 0 THEN 1 ELSE largest
        \* combined_weight of swing i, times 2 * n * max_swing_size
        weight == [i \in 1..n |->
            (IF use_recency THEN i ELSE n)
            * (max_swing_size
               + (IF use_size_weight /\ recent_swings[i].swing_size > 0
                  THEN recent_swings[i].swing_size ELSE max_swing_size))]
        is_trend_aligned == [i \in 1..n |->
            IF trend = "bullish"
            THEN recent_swings[i].swing_type \in {"HH", "HL"}
            ELSE IF trend = "bearish"
            THEN recent_swings[i].swing_type \in {"LL", "LH"}
            ELSE TRUE]
        weighted_score ==
            SumTo([i \in 1..n |-> IF is_trend_aligned[i] THEN weight[i] ELSE 0], n)
        total_weight == SumTo(weight, n)
    IN  IF total_weight > 0 THEN Reduced(Ratio(weighted_score, total_weight))
        ELSE Ratio(0, 1)

\* the score with 0 where no considered swing has a size
calculate_swing_quality_score_zero(swing_points) ==
    IF Len(swing_points) < 2 THEN Ratio(0, 1)
    ELSE
    LET recent_swings == LastN(swing_points, 10)
        swing_sizes == {recent_swings[i].swing_size : i \in 1..Len(recent_swings)}
                           \ {0}
    IN  IF swing_sizes = {} THEN Ratio(0, 1)
        ELSE Reduced(Ratio(MaxOf(swing_sizes) + MinOf(swing_sizes),
                           2 * MaxOf(swing_sizes)))

calculate_swing_quality_score(swing_points) ==
    IF Len(swing_points) < 2 THEN Ratio(0, 1)
    ELSE
    LET recent_swings == LastN(swing_points, 10)
        swing_sizes == {recent_swings[i].swing_size : i \in 1..Len(recent_swings)}
                           \ {0}
    IN  IF swing_sizes = {} THEN Ratio(1, 2)
        \* 0.5 + 0.5 * (1 - (max - min) / max)
        ELSE Reduced(Ratio(MaxOf(swing_sizes) + MinOf(swing_sizes),
                           2 * MaxOf(swing_sizes)))

calculate_zone_clarity(zones, max_zones) ==
    IF Len(zones) = 0 THEN Ratio(0, 1)
    ELSE IF Len(zones) > max_zones THEN Ratio(3, 10)
    ELSE
    LET n == Len(zones)
        strong_zones == Cardinality({i \in 1..n : zones[i].strength = "strong"})
        moderate_zones ==
            Cardinality({i \in 1..n : zones[i].strength = "moderate"})
        supply_zones == Cardinality({i \in 1..n : zones[i].type = "supply"})
        demand_zones == Cardinality({i \in 1..n : zones[i].type = "demand"})
        \* quality_score * 0.7 is 7 * (10 * strong + 6 * moderate) / (100 * n)
        \* and balance_score * 0.3 is 30 / 100 or 15 / 100
        balance == IF supply_zones > 0 /\ demand_zones > 0 THEN 30 ELSE 15
    IN  Reduced(Ratio(7 * (10 * strong_zones + 6 * moderate_zones) + balance * n,
                      100 * n))

\* the share of alternating pairs taken over one pair too few
calculate_structure_clarity_short(swing_points, min_swings) ==
    IF Len(swing_points) < min_swings THEN Ratio(0, 1)
    ELSE
    LET recent_swings == LastN(swing_points, 10)
        is_high(sp) == sp.swing_type \in {"HH", "LH"}
        alternating_count ==
            Cardinality({i \in 2..Len(recent_swings) :
                is_high(recent_swings[i - 1]) # is_high(recent_swings[i])})
    IN  IF Len(recent_swings) > 2
        THEN Reduced(Ratio(alternating_count, Len(recent_swings) - 2))
        ELSE Ratio(0, 1)

calculate_structure_clarity(swing_points, min_swings) ==
    IF Len(swing_points) < min_swings THEN Ratio(0, 1)
    ELSE
    LET recent_swings == LastN(swing_points, 10)
        is_high(sp) == sp.swing_type \in {"HH", "LH"}
        alternating_count ==
            Cardinality({i \in 2..Len(recent_swings) :
                is_high(recent_swings[i - 1]) # is_high(recent_swings[i])})
    IN  IF Len(recent_swings) > 1
        THEN Reduced(Ratio(alternating_count, Len(recent_swings) - 1))
        ELSE Ratio(0, 1)

analyze_clarity(candles, timeframe, config) ==
    IF Len(candles) < config.min_candles
    THEN ClarityResult(0, FALSE, Ratio(0, 1), Ratio(0, 1), Ratio(0, 1),
                       <<"Insufficient candle data">>)
    ELSE
    LET \* the score and the result, from the four measures
        scored(trend_consistency, swing_quality, zone_clarity, structure_clarity, swings, zones) ==
            LET score == round_half_even(
                    RatAdd(RatAdd(RatScale(30, trend_consistency),
                                  RatScale(30, zone_clarity)),
                           RatAdd(RatScale(25, structure_clarity),
                                  RatScale(15, swing_quality))))
                is_clear == /\ score >= config.min_clarity_score
                            /\ swings >= config.min_swing_points_required
                            /\ zones >= config.min_zones_required
            IN  ClarityResult(score, is_clear, trend_consistency, zone_clarity,
                    structure_clarity,
                    <<<<"Trend consistency", Percent(trend_consistency)>>,
                      <<"Swing quality", Percent(swing_quality)>>,
                      <<"Zone clarity", Percent(zone_clarity), zones>>,
                      <<"Structure clarity", Percent(structure_clarity)>>>>)
        \* the four measures, from the classified swings and the
        \* unmitigated zones
        measured(classified_swings, unmitigated) ==
            scored(calculate_weighted_trend_consistency(classified_swings,
                       determine_trend(candles, classified_swings),
                       config.use_recency_weighting,
                       config.use_swing_size_weighting),
                   calculate_swing_quality_score(classified_swings),
                   calculate_zone_clarity(unmitigated,
                                          config.max_zones_for_clarity),
                   calculate_structure_clarity(classified_swings,
                       config.min_swing_points_required),
                   Len(classified_swings), Len(unmitigated))
    IN  measured(classify_swing_points(
                     detect_swing_points(candles, config.swing_lookback)),
                 SelectSeq(detect_zones(candles, "neutral",
                                        candles[Len(candles)].close,
                                        config.filter_overlapping_zones).all_zones,
                           LAMBDA z : ~z.mitigated))

-----------------------------------------------------------------------------
(* smc.py: SMCClarityConfig *)

DEFAULT_SMC_CONFIG ==
    [min_clarity_score |-> 60,
     min_zones_required |-> 1,
     max_zones_for_clarity |-> 5,
     min_swing_points_required |-> 4,
     min_trend_consistency |-> Ratio(6, 10),
     min_candles |-> 20,
     swing_lookback |-> 5,
     zone_max_age_hours |-> 168,
     use_recency_weighting |-> TRUE,
     use_swing_size_weighting |-> TRUE,
     filter_overlapping_zones |-> TRUE,
     min_rr_ratio |-> Ratio(3, 2),
     min_entry_confidence |-> 60]

-----------------------------------------------------------------------------
(* base.py, smc.py: SMCStrategy *)

\* the strategy configuration with a floor of 70 on the confidence of a
\* signal
SMC_CONFIG_strict ==
    [id |-> "smc_v2", name |-> "Smart Money Concepts", min_confidence |-> 70,
     max_signals_per_scan |-> 3, enabled |-> TRUE]

SMC_CONFIG ==
    [id |-> "smc_v2", name |-> "Smart Money Concepts", min_confidence |-> 60,
     max_signals_per_scan |-> 3, enabled |-> TRUE]

\* MultiTimeframeData(): every timeframe defaults to no candles
MultiTimeframeData ==
    [d1 |-> << >>, h4 |-> << >>, h2 |-> << >>, h1 |-> << >>, m30 |-> << >>,
     m15 |-> << >>, m5 |-> << >>, m3 |-> << >>, m1 |-> << >>]

InstrumentData(symbol, asset_class, current_price, data) ==
    [symbol |-> symbol, asset_class |-> asset_class,
     current_price |-> current_price, data |-> data]

StrategyResult(strategy_id, signals, pending_setups, errors, analysis_time_ms) ==
    [strategy_id |-> strategy_id, signals |-> signals,
     pending_setups |-> pending_setups, errors |-> errors,
     analysis_time_ms |-> analysis_time_ms]

\* ClarityResult(0, False, 0, 1.0, False, []), the clarity of a timeframe
\* without candles
NoClarity ==
    ClarityResult(0, FALSE, Ratio(0, 1), Ratio(1, 1), Ratio(0, 1), << >>)

ClarityOf(candles, timeframe, smc_config) ==
    IF candles # << >> THEN analyze_clarity(candles, timeframe, smc_config)
    ELSE NoClarity

\* the selection with the entry-refinement score gating is_clear as well
_select_timeframes_entry_gated(data, smc_config) ==
    LET selected(d1_clarity, h4_clarity, m15_clarity, m5_clarity) ==
        [daily_context_tf |-> "1D",
         major_zone_tf |-> IF h4_clarity.score >= 50 THEN "4H" ELSE "2H",
         zone_identification_tf |->
             IF m15_clarity.score >= 50 THEN "15M" ELSE "30M",
         entry_refinement_tf |-> IF m5_clarity.score >= 50 THEN "5M" ELSE "3M",
         daily_context_clarity |-> d1_clarity.score,
         major_zone_clarity |-> h4_clarity.score,
         zone_identification_clarity |-> m15_clarity.score,
         entry_refinement_clarity |-> m5_clarity.score,
         is_clear |-> /\ d1_clarity.score >= 40
                      /\ h4_clarity.score >= 40
                      /\ m15_clarity.score >= 40
                      /\ m5_clarity.score >= 40,
         reasoning |-> d1_clarity.reasoning \o h4_clarity.reasoning]
    IN  selected(ClarityOf(data.d1, "1D", smc_config),
                 ClarityOf(data.h4, "4H", smc_config),
                 ClarityOf(data.m15, "15M", smc_config),
                 ClarityOf(data.m5, "5M", smc_config))

_select_timeframes(data, smc_config) ==
    LET selected(d1_clarity, h4_clarity, m15_clarity, m5_clarity) ==
        [daily_context_tf |-> "1D",
         major_zone_tf |-> IF h4_clarity.score >= 50 THEN "4H" ELSE "2H",
         zone_identification_tf |->
             IF m15_clarity.score >= 50 THEN "15M" ELSE "30M",
         entry_refinement_tf |-> IF m5_clarity.score >= 50 THEN "5M" ELSE "3M",
         daily_context_clarity |-> d1_clarity.score,
         major_zone_clarity |-> h4_clarity.score,
         zone_identification_clarity |-> m15_clarity.score,
         entry_refinement_clarity |-> m5_clarity.score,
         is_clear |-> /\ d1_clarity.score >= 40
                      /\ h4_clarity.score >= 40
                      /\ m15_clarity.score >= 40,
         reasoning |-> d1_clarity.reasoning \o h4_clarity.reasoning]
    IN  selected(ClarityOf(data.d1, "1D", smc_config),
                 ClarityOf(data.h4, "4H", smc_config),
                 ClarityOf(data.m15, "15M", smc_config),
                 ClarityOf(data.m5, "5M", smc_config))

_get_major_zone_candles(data, tf) ==
    IF tf = "4H" THEN data.h4
    ELSE IF tf = "2H" THEN data.h2
    ELSE IF tf = "1H" THEN data.h1
    ELSE data.h4

_get_zone_id_candles(data, tf) == IF tf = "30M" THEN data.m30 ELSE data.m15

_get_refinement_candles(data, tf) ==
    IF tf = "5M" THEN data.m5
    ELSE IF tf = "3M" THEN data.m3
    ELSE IF tf = "1M" THEN data.m1
    ELSE data.m5

\* f"{self.id}_{int(time.time())}_{uuid.uuid4().hex[:8]}"; the clock is
\* in milliseconds
create_signal_id(strategy_id, time, uuid4) == <<strategy_id, time \div 1000, uuid4>>

calculate_expiry_time(time, hours) == time + hours * MsPerHour

\* hours a signal lives when calculate_expiry_time is called without any
SignalExpiryHours == 4

\* _build_signal with the time of creation added to the reasoning
_build_signal_dated(instrument, entry_result, h4_trend, zones_result, refinement_result, tf_selection, swing_points, stamps) ==
    LET setup == entry_result.setup
        market_context ==
            [h4_trend_direction |-> h4_trend,
             d1_trend_direction |-> h4_trend,
             nearest_supply_target |-> None,
             nearest_demand_target |-> None,
             swing_points |-> swing_points,
             unmitigated_supply |-> zones_result.unmitigated_supply,
             unmitigated_demand |-> zones_result.unmitigated_demand,
             reasoning |-> zones_result.reasoning]
        all_reasoning ==
            <<<<"1D Context", h4_trend, tf_selection.daily_context_clarity>>,
              <<"Major Zones", tf_selection.major_zone_tf,
                tf_selection.major_zone_clarity>>,
              <<"Zone ID", tf_selection.zone_identification_tf,
                tf_selection.zone_identification_clarity>>,
              <<"Entry", tf_selection.entry_refinement_tf,
                tf_selection.entry_refinement_clarity>>>>
            \o tf_selection.reasoning \o zones_result.reasoning
            \o refinement_result.reasoning \o entry_result.reasoning
            \o <<<<"Generated at", stamps.created_time>>>>
    IN  [id |-> create_signal_id(SMC_CONFIG.id, stamps.id_time, stamps.uuid4),
         strategy_id |-> SMC_CONFIG.id,
         strategy_name |-> SMC_CONFIG.name,
         symbol |-> instrument.symbol,
         asset_class |-> instrument.asset_class,
         direction |-> setup.direction,
         entry_type |-> setup.entry_type,
         entry_price |-> setup.entry_price,
         stop_loss |-> setup.stop_loss,
         take_profit |-> setup.take_profit,
         risk_reward_ratio |-> setup.risk_reward_ratio,
         confidence |-> setup.confidence,
         timeframe |-> tf_selection.entry_refinement_tf,
         market_context |-> market_context,
         entry_setup |-> setup,
         zones |-> [h4 |-> zones_result.all_zones,
                    m15 |-> zones_result.tradable_zones,
                    m5 |-> << >>, m1 |-> << >>],
         reasoning |-> all_reasoning,
         created_at |-> stamps.created_time,
         expires_at |-> calculate_expiry_time(stamps.expiry_time,
                                              SignalExpiryHours)]

\* stamps: the three clock readings and the uuid that _build_signal draws
_build_signal(instrument, entry_result, h4_trend, zones_result, refinement_result, tf_selection, swing_points, stamps) ==
    LET setup == entry_result.setup
        market_context ==
            [h4_trend_direction |-> h4_trend,
             d1_trend_direction |-> h4_trend,
             nearest_supply_target |-> None,
             nearest_demand_target |-> None,
             swing_points |-> swing_points,
             unmitigated_supply |-> zones_result.unmitigated_supply,
             unmitigated_demand |-> zones_result.unmitigated_demand,
             reasoning |-> zones_result.reasoning]
        all_reasoning ==
            <<<<"1D Context", h4_trend, tf_selection.daily_context_clarity>>,
              <<"Major Zones", tf_selection.major_zone_tf,
                tf_selection.major_zone_clarity>>,
              <<"Zone ID", tf_selection.zone_identification_tf,
                tf_selection.zone_identification_clarity>>,
              <<"Entry", tf_selection.entry_refinement_tf,
                tf_selection.entry_refinement_clarity>>>>
            \o tf_selection.reasoning \o zones_result.reasoning
            \o refinement_result.reasoning \o entry_result.reasoning
    IN  [id |-> create_signal_id(SMC_CONFIG.id, stamps.id_time, stamps.uuid4),
         strategy_id |-> SMC_CONFIG.id,
         strategy_name |-> SMC_CONFIG.name,
         symbol |-> instrument.symbol,
         asset_class |-> instrument.asset_class,
         direction |-> setup.direction,
         entry_type |-> setup.entry_type,
         entry_price |-> setup.entry_price,
         stop_loss |-> setup.stop_loss,
         take_profit |-> setup.take_profit,
         risk_reward_ratio |-> setup.risk_reward_ratio,
         confidence |-> setup.confidence,
         timeframe |-> tf_selection.entry_refinement_tf,
         market_context |-> market_context,
         entry_setup |-> setup,
         zones |-> [h4 |-> zones_result.all_zones,
                    m15 |-> zones_result.tradable_zones,
                    m5 |-> << >>, m1 |-> << >>],
         reasoning |-> all_reasoning,
         created_at |-> stamps.created_time,
         expires_at |-> calculate_expiry_time(stamps.expiry_time,
                                              SignalExpiryHours)]

\* the target handed to detect_entry: the nearest unmitigated opposing
\* zone beyond the current price
nearest_target(direction, zones_result, current_price) ==
    LET supply_above ==
            {z.bottom_price : z \in {y \in Range(zones_result.unmitigated_supply) :
                                        y.bottom_price > current_price}}
        demand_below ==
            {z.top_price : z \in {y \in Range(zones_result.unmitigated_demand) :
                                     y.top_price < current_price}}
    IN  IF direction = "buy" /\ zones_result.unmitigated_supply # << >>
        THEN IF supply_above # {} THEN Some(MinOf(supply_above)) ELSE None
        ELSE IF direction = "sell" /\ zones_result.unmitigated_demand # << >>
        THEN IF demand_below # {} THEN Some(MaxOf(demand_below)) ELSE None
        ELSE None

\* one pass of the loop over the major zones, up to the decision on the
\* entry: a signal, a pending setup or nothing; or the exception raised
analyze_zone(instrument, major_zone, major_zones_result, tf_selection) ==
    LET data == instrument.data
        refinement_candles ==
            _get_refinement_candles(data, tf_selection.entry_refinement_tf)
        direction == IF major_zone.type = "demand" THEN "buy" ELSE "sell"
        \* the decision on the entry found
        decided(refinement_result, entry_result) ==
            LET setup == entry_result.setup
                decision ==
                    IF ~entry_result.has_valid_entry
                    THEN IF setup # NoSetup /\ setup.confidence >= 40
                         THEN "pending" ELSE "none"
                    ELSE IF setup = NoSetup THEN "none"
                    ELSE IF setup.confidence >= SMC_CONFIG.min_confidence
                    THEN "signal"
                    ELSE IF setup.confidence >= 50 THEN "pending" ELSE "none"
            IN  [decision |-> decision, entry_result |-> entry_result,
                 refinement_result |-> refinement_result]
        \* the search for an entry at the refined zone, or at the major
        \* zone where there is none
        refined(refinement_result) ==
            IF IsRaised(refinement_result) THEN refinement_result
            ELSE decided(refinement_result,
                     detect_entry(refinement_candles,
                         IF refinement_result.refined_zone # None
                         THEN refinement_result.refined_zone[1]
                         ELSE major_zone,
                         direction,
                         nearest_target(direction, major_zones_result,
                                        instrument.current_price),
                         major_zones_result.all_zones))
    IN  refined(refine_zone(major_zone,
                    _get_zone_id_candles(data,
                                         tf_selection.zone_identification_tf),
                    refinement_candles))

\* the loop: the passes made, in order, ending with the one that raised
RECURSIVE AnalyzeZonesFrom(_, _, _, _)
AnalyzeZonesFrom(instrument, zones, major_zones_result, tf_selection) ==
    IF zones = << >> THEN << >>
    ELSE LET passed(pass) ==
                 IF IsRaised(pass) THEN <<pass>>
                 ELSE <<pass>> \o AnalyzeZonesFrom(instrument, Tail(zones),
                                      major_zones_result, tf_selection)
         IN  passed(analyze_zone(instrument, zones[1], major_zones_result,
                                 tf_selection))

\* analyze with the loop over the major zones entered whatever the
\* timeframe selection says
AnalyzeWork_ungated(instrument, smc_config) ==
    LET data == instrument.data
        context_candles == IF data.d1 # << >> THEN data.d1 ELSE data.h4
        zoned(tf_selection, swing_points, h4_trend, major_zones_result) ==
            [tf_selection |-> tf_selection, swing_points |-> swing_points,
             h4_trend |-> h4_trend, major_zones_result |-> major_zones_result,
             passes |->
                AnalyzeZonesFrom(instrument,
                    SubSeq(major_zones_result.tradable_zones, 1,
                        MinOf({3, Len(major_zones_result.tradable_zones)})),
                    major_zones_result, tf_selection)]
        trended(tf_selection, swing_points, h4_trend) ==
            zoned(tf_selection, swing_points, h4_trend,
                detect_zones(
                    _get_major_zone_candles(data, tf_selection.major_zone_tf),
                    IF h4_trend = "bullish" THEN "buyers"
                    ELSE IF h4_trend = "bearish" THEN "sellers" ELSE "neutral",
                    instrument.current_price,
                    smc_config.filter_overlapping_zones))
        swung(tf_selection, swing_points) ==
            trended(tf_selection, swing_points,
                    determine_trend(context_candles, swing_points))
    IN  swung(_select_timeframes(data, smc_config),
              detect_swing_points(context_candles, smc_config.swing_lookback))

\* what analyze computes from the instrument alone, between its first and
\* its last reading of the clock
AnalyzeWork(instrument, smc_config) ==
    LET data == instrument.data
        context_candles == IF data.d1 # << >> THEN data.d1 ELSE data.h4
        \* the loop over the first three tradable major zones
        zoned(tf_selection, swing_points, h4_trend, major_zones_result) ==
            [tf_selection |-> tf_selection, swing_points |-> swing_points,
             h4_trend |-> h4_trend, major_zones_result |-> major_zones_result,
             passes |->
                IF ~tf_selection.is_clear THEN << >>
                ELSE AnalyzeZonesFrom(instrument,
                        SubSeq(major_zones_result.tradable_zones, 1,
                            MinOf({3, Len(major_zones_result.tradable_zones)})),
                        major_zones_result, tf_selection)]
        \* the major zones, under the control the trend gives
        trended(tf_selection, swing_points, h4_trend) ==
            zoned(tf_selection, swing_points, h4_trend,
                detect_zones(
                    _get_major_zone_candles(data, tf_selection.major_zone_tf),
                    IF h4_trend = "bullish" THEN "buyers"
                    ELSE IF h4_trend = "bearish" THEN "sellers" ELSE "neutral",
                    instrument.current_price,
                    smc_config.filter_overlapping_zones))
        \* the trend of the context candles
        swung(tf_selection, swing_points) ==
            trended(tf_selection, swing_points,
                    determine_trend(context_candles, swing_points))
    IN  swung(_select_timeframes(data, smc_config),
              detect_swing_points(context_candles, smc_config.swing_lookback))

\* the try block ending at the first exception with nothing kept of the
\* passes made before it
WorkWithFault_lost(work, fault) ==
    IF fault.step = "none" THEN work
    ELSE IF fault.step = "_select_timeframes"
    THEN [work EXCEPT !.passes = <<Raised(fault.text)>>]
    ELSE IF ~work.tf_selection.is_clear THEN work
    ELSE IF fault.step \in {"determine_trend", "detect_zones"}
    THEN [work EXCEPT !.passes = <<Raised(fault.text)>>]
    ELSE IF fault.call > Len(work.passes) THEN work
    ELSE [work EXCEPT !.passes = <<Raised(fault.text)>>]

\* what analyze computes when the call named by fault raises an exception:
\* the try block ends there, with the passes made before it; a call that
\* is not reached raises nothing; fault.call numbers the calls of
\* refine_zone and of detect_entry, one of each for each major zone
WorkWithFault(work, fault) ==
    IF fault.step = "none" THEN work
    ELSE IF fault.step = "_select_timeframes"
    THEN [work EXCEPT !.passes = <<Raised(fault.text)>>]
    ELSE IF ~work.tf_selection.is_clear THEN work
    ELSE IF fault.step \in {"determine_trend", "detect_zones"}
    THEN [work EXCEPT !.passes = <<Raised(fault.text)>>]
    ELSE IF fault.call > Len(work.passes) THEN work
    ELSE [work EXCEPT !.passes =
            SubSeq(work.passes, 1, fault.call - 1) \o <<Raised(fault.text)>>]

SignalPasses(work) ==
    SelectSeq(work.passes, LAMBDA p : ~IsRaised(p) /\ p.decision = "signal")

\* the clock readings of one run: at entry, three for each signal built
\* and at return
ReadsOf(work) == 2 + 3 * Len(SignalPasses(work))

\* the StrategyResult of a run with the clock readings and uuids it drew
StrategyResultOf(instrument, work, reads, uuids) ==
    LET built == SignalPasses(work)
        pending == SelectSeq(work.passes,
                             LAMBDA p : ~IsRaised(p) /\ p.decision = "pending")
        raised == SelectSeq(work.passes, IsRaised)
    IN  StrategyResult(SMC_CONFIG.id,
            [k \in 1..Len(built) |->
                _build_signal(instrument, built[k].entry_result, work.h4_trend,
                    work.major_zones_result, built[k].refinement_result,
                    work.tf_selection, work.swing_points,
                    [id_time |-> reads[3 * k - 1], uuid4 |-> uuids[k],
                     created_time |-> reads[3 * k],
                     expiry_time |-> reads[3 * k + 1]])],
            [k \in 1..Len(pending) |-> pending[k].entry_result.setup],
            [k \in 1..Len(raised) |-> raised[k].raised],
            reads[Len(reads)] - reads[1])

-----------------------------------------------------------------------------
(* Bounds of the inputs *)

\* every input price is a multiple of Tick
Tick == 4

\* number of price levels the candles handed to detect_entry are drawn from
EntryLevels == 4

\* longest candle series handed to detect_entry
EntryMaxLen == 5

\* longest zone list handed to filter_overlapping_zones
FilterMaxZones == 3

\* hours the clock runs on past a zone's creation
FreshMaxHours == 170

\* milliseconds the clock runs on past a full hour
FreshMaxMs == 2

\* longest candle series handed to detect_swing_points
SwingMaxCandles == 6

\* largest lookback handed to detect_swing_points
SwingMaxLookback == 2

\* longest swing list handed to classify_swing_points
SwingMaxPoints == 4

\* longest candle series handed to refine_zone
RefineMaxCandles == 4

\* most candles appended to the series handed to detect_zones
ZonesMaxAppend == 5

\* hours between two candles of that series
ZonesCandleHours == 36

\* runs of analyze on one instrument
AnalyzeMaxRuns == 2

\* the clock moves by whole ticks, at most this many in all
ClockMaxTicks == 1

\* milliseconds in a tick of the clock
ClockTickMs == 1000

\* values uuid4().hex[:8] is drawn from
UuidValues == 2

-----------------------------------------------------------------------------
(* The calls of detect_entry *)

\* scanner.py: SignalScanner.__init__
SignalScanner ==
    [is_scanning |-> FALSE, last_scan_time |-> None, scan_count |-> 0]

Idle ==
    /\ op = "idle" /\ args = << >> /\ ret = << >>
    /\ clock = 0 /\ results = << >>
    /\ scanner = SignalScanner /\ calls = << >>

EntryPrices == {28 + 2 * Tick * k : k \in 1..EntryLevels}

\* a candle as a data provider delivers it: low <= open, close <= high
IsWellFormed(c) ==
    /\ c.low <= c.open /\ c.low <= c.close
    /\ c.high >= c.open /\ c.high >= c.close

WellFormedCandles(prices) ==
    {c \in [timestamp : {0}, open : prices, high : prices,
            low : prices, close : prices] : IsWellFormed(c)}

EntryLastCandles == WellFormedCandles(EntryPrices)

EntryPrevCandles ==
    {Candle(0, 44, 52, 44, 48), Candle(0, 52, 60, 36, 44), Candle(0, 36, 36, 36, 36)}

EntryZones ==
    {Zone(56, 40, "demand", "strong", 3, FALSE, 0),
     Zone(52, 48, "supply", "moderate", 5, FALSE, 0),
     Zone(44, 44, "demand", "moderate", 2, FALSE, 0),
     Zone(64, 48, "demand", "moderate", 4, FALSE, 0)}

EntryTargets == {None, Some(0), Some(32), Some(64), Some(100)}

EntryZoneSets ==
    {<< >>,
     << Zone(80, 72, "supply", "strong", 1, FALSE, 0),
        Zone(68, 64, "supply", "moderate", 4, TRUE, 0),
        Zone(24, 20, "demand", "strong", 6, FALSE, 0) >>}

EntryConfigs ==
    {[DEFAULT_SMC_CONFIG EXCEPT !.min_rr_ratio = r, !.min_entry_confidence = m] :
        r \in {Ratio(3, 2), Ratio(2, 1)}, m \in {60, 70}}

\* a series of n candles ending with prev, last; candle i is stamped i
EntrySeries(n, prev, last) ==
    [i \in 1..n |->
        [(IF i = n THEN last ELSE prev) EXCEPT !.timestamp = i]]

InitEntry == Idle /\ cfg \in EntryConfigs

CallDetectEntry ==
    /\ op = "idle"
    /\ \E n \in (EntryMaxLen - 1)..EntryMaxLen, prev \in EntryPrevCandles,
          last \in EntryLastCandles, zone \in EntryZones,
          direction \in {"buy", "sell"}, target \in EntryTargets,
          zones \in EntryZoneSets :
            LET candles == EntrySeries(n, prev, last)
            IN  /\ op' = "detect_entry"
                /\ args' = [candles |-> candles, zone |-> zone,
                            direction |-> direction, target_price |-> target,
                            all_zones |-> zones]
                /\ ret' = detect_entry(candles, zone, direction, target, zones)
    /\ UNCHANGED <<cfg, clock, results, scanner, calls>>

NextEntry == CallDetectEntry

SpecEntry == InitEntry /\ [][NextEntry]_vars

-----------------------------------------------------------------------------
(* Claims about detect_entry *)

EntryReturned == op = "detect_entry"

\* C1 as stated: whenever detect_entry returns has_valid_entry = true, the
\* setup has risk_reward_ratio >= cfg.min_rr_ratio, confidence <= 95 and
\* confidence >= cfg.min_entry_confidence, for every configuration value.
C1_EntryHonoursConfig ==
    (EntryReturned /\ ret.has_valid_entry) =>
        /\ RatGe(ret.setup.risk_reward_ratio,
                 cfg.min_rr_ratio.num, cfg.min_rr_ratio.den)
        /\ ret.setup.confidence <= 95
        /\ ret.setup.confidence >= cfg.min_entry_confidence

\* the case of C10: at least 5 candles, price at or near the zone, the
\* confidence gate passed, no usable external target, no opposing zone
\* beyond the entry price
FallbackCase ==
    /\ EntryReturned
    /\ Len(args.candles) >= 5
    /\ LET n == Len(args.candles)
           last == args.candles[n]
           prev == args.candles[n - 1]
           price == last.close
           at == price_in_zone(args.zone, price)
           near == \/ 2 * Abs(price - args.zone.top_price) < zone_size(args.zone)
                   \/ 2 * Abs(price - args.zone.bottom_price) < zone_size(args.zone)
           t == args.target_price
       IN  /\ at \/ near
           /\ 50 + SumBonus(entry_confirmations(last, prev, args.zone,
                                                args.direction, at)) >= 60
           /\ IF args.direction = "buy"
              THEN /\ ~(t # None /\ t[1] # 0 /\ t[1] > price)
                   /\ \A z \in Range(args.all_zones) :
                        ~(z.type = "supply" /\ z.bottom_price > price)
              ELSE /\ ~(t # None /\ t[1] # 0 /\ t[1] < price)
                   /\ \A z \in Range(args.all_zones) :
                        ~(z.type = "demand" /\ z.top_price < price)

\* the take-profit is entry +/- 2.5 x risk, the ratio is exactly 2.5 and
\* the entry is accepted
FallbackOutcome ==
    /\ ret.has_valid_entry
    /\ LET e == ret.setup.entry_price
           sl == ret.setup.stop_loss
           tp == ret.setup.take_profit
       IN  /\ e = args.candles[Len(args.candles)].close
           /\ IF args.direction = "buy"
              THEN 2 * tp = 2 * e + 5 * (e - sl)
              ELSE 2 * tp = 2 * e - 5 * (sl - e)
    /\ 2 * ret.setup.risk_reward_ratio.num = 5 * ret.setup.risk_reward_ratio.den

AwayFromZone ==
    /\ EntryReturned
    /\ Len(args.candles) >= 5
    /\ LET price == args.candles[Len(args.candles)].close
       IN  /\ price < args.zone.bottom_price \/ price > args.zone.top_price
           /\ 2 * Abs(price - args.zone.top_price) >= zone_size(args.zone)
           /\ 2 * Abs(price - args.zone.bottom_price) >= zone_size(args.zone)

\* C11: for a series of at least 5 candles whose last close is outside the
\* zone and not strictly within half a zone size of either boundary,
\* detect_entry returns has_valid_entry = false, no setup and the reasoning
\* "Price not at zone", whatever the candles, direction, target and zones.
C11_AwayFromZoneRejected ==
    AwayFromZone =>
        /\ ~ret.has_valid_entry
        /\ ret.setup = NoSetup
        /\ ret.reasoning = <<"Price not at zone">>

\* C11 witness: a BUY with a strong bullish last candle, a target above
\* and a supply zone above, rejected because the close is away from the zone
C11_Witness ==
    /\ AwayFromZone
    /\ zone_size(args.zone) > 0
    /\ args.direction = "buy"
    /\ is_bullish(args.candles[Len(args.candles)])
    /\ args.target_price = Some(100)
    /\ args.all_zones # << >>
    /\ ret.reasoning = <<"Price not at zone">>

\* the take-profit by the stated priority: the supplied target on the
\* profitable side of the entry, else the nearest boundary of an opposing
\* unmitigated zone beyond the entry, else entry +/- 2.5 x risk
PriorityTakeProfit ==
    LET entry_price == args.candles[Len(args.candles)].close
        stop_loss == entry_stop_loss(args.zone, args.direction)
        target == args.target_price
        supply_above ==
            {z \in Range(args.all_zones) :
                z.type = "supply" /\ ~z.mitigated /\ z.bottom_price > entry_price}
        demand_below ==
            {z \in Range(args.all_zones) :
                z.type = "demand" /\ ~z.mitigated /\ z.top_price < entry_price}
    IN  IF args.direction = "buy"
        THEN IF target # None /\ target[1] > entry_price THEN target[1]
             ELSE IF supply_above # {}
             THEN MinOf({z.bottom_price : z \in supply_above})
             ELSE entry_price + (((entry_price - stop_loss) * 5) \div 2)
        ELSE IF target # None /\ target[1] < entry_price THEN target[1]
             ELSE IF demand_below # {}
             THEN MaxOf({z.top_price : z \in demand_below})
             ELSE entry_price - (((stop_loss - entry_price) * 5) \div 2)

\* C20: the take-profit of an accepted entry is the supplied target when
\* there is one on the profitable side of the entry price, else the nearest
\* boundary of an opposing unmitigated zone of all_zones beyond the entry
\* (mitigated zones are never the target), else entry +/- 2.5 x risk.
C20_TakeProfitPriority ==
    (EntryReturned /\ ret.has_valid_entry) =>
        ret.setup.take_profit = PriorityTakeProfit

\* a BUY accepted with the bottom of a mitigated supply zone as its
\* take-profit, an unmitigated supply zone lying further up
MitigatedZoneIsTarget ==
    /\ EntryReturned /\ ret.has_valid_entry
    /\ args.direction = "buy"
    /\ args.zone.type = "demand"
    /\ args.target_price = None
    /\ \E z \in Range(args.all_zones) :
          /\ z.type = "supply" /\ z.mitigated
          /\ ret.setup.take_profit = z.bottom_price
    /\ \E z \in Range(args.all_zones) :
          /\ z.type = "supply" /\ ~z.mitigated
          /\ z.bottom_price > ret.setup.take_profit
    /\ PriorityTakeProfit # ret.setup.take_profit

\* the take-profit differs from the stated one for no other reason than a
\* mitigated zone taken as the target or a supplied target of 0
OnlyKnownDifferences ==
    (EntryReturned /\ ret.has_valid_entry
        /\ ret.setup.take_profit # PriorityTakeProfit) =>
        \/ \E z \in Range(args.all_zones) :
              /\ z.mitigated
              /\ ret.setup.take_profit \in {z.bottom_price, z.top_price}
        \/ args.target_price = Some(0)

\* the conditions detect_entry looks for on the last two candles of the
\* call, for its direction
EntryLast == args.candles[Len(args.candles)]

EntryPrev == args.candles[Len(args.candles) - 1]

InZoneHolds == price_in_zone(args.zone, EntryLast.close)

MomentumHolds ==
    /\ IF args.direction = "buy" THEN is_bullish(EntryLast)
       ELSE is_bearish(EntryLast)
    /\ 2 * body_size(EntryLast) >= total_range(EntryLast)

ChochHolds ==
    IF args.direction = "buy" THEN EntryLast.close > EntryPrev.high
    ELSE EntryLast.close < EntryPrev.low

WickHolds ==
    IF args.direction = "buy"
    THEN lower_wick(EntryLast) > body_size(EntryLast)
    ELSE upper_wick(EntryLast) > body_size(EntryLast)

SweepHolds ==
    IF args.direction = "buy"
    THEN EntryLast.low < EntryPrev.low /\ EntryLast.close > EntryPrev.close
    ELSE EntryLast.high > EntryPrev.high /\ EntryLast.close < EntryPrev.close

\* 50 plus the bonuses of the conditions that hold
BonusConfidence ==
    50 + (IF InZoneHolds THEN 10 ELSE 0) + (IF MomentumHolds THEN 10 ELSE 0)
       + (IF ChochHolds THEN 10 ELSE 0) + (IF WickHolds THEN 5 ELSE 0)
       + (IF SweepHolds THEN 15 ELSE 0)

\* C26: the entry type of an accepted entry is liquidity_sweep whenever the
\* sweep condition holds, also when the close lies beyond the previous
\* extreme; it is choch when only the latter holds and zone_touch
\* otherwise; the confidence, of an accepted entry and of one rejected for
\* its confidence, is 50 plus the bonuses of the conditions that hold
\* (+10 in zone, +10 momentum, +10 choch, +5 rejection wick, +15 sweep).
C26_EntryTypePrecedence ==
    /\ (EntryReturned /\ ret.has_valid_entry) =>
          /\ ret.setup.entry_type =
                IF SweepHolds THEN "liquidity_sweep"
                ELSE IF ChochHolds THEN "choch" ELSE "zone_touch"
          /\ ret.setup.confidence = BonusConfidence
          /\ ret.reasoning[3] = BonusConfidence
    /\ (EntryReturned /\ ret.reasoning[1] = "Confidence too low") =>
          /\ ret.reasoning[2] = BonusConfidence
          /\ BonusConfidence < 60

\* C26 witness: a BUY accepted as a liquidity sweep whose close also lies
\* above the previous high
C26_Witness ==
    /\ EntryReturned /\ ret.has_valid_entry
    /\ args.direction = "buy"
    /\ SweepHolds /\ ChochHolds
    /\ ret.setup.entry_type = "liquidity_sweep"
    /\ ret.setup.confidence >= 85

\* an accepted entry with the rejection wick as its only confirmation
\* beside the zone
WickOnlyEntry ==
    /\ EntryReturned /\ ret.has_valid_entry
    /\ WickHolds /\ ~MomentumHolds /\ ~ChochHolds /\ ~SweepHolds
    /\ ret.setup.entry_type = "zone_touch"
    /\ ret.setup.confidence = 65

\* C28: every setup of a valid entry is ordered around its entry price: a
\* BUY has stop_loss < entry_price < take_profit, a SELL has take_profit <
\* entry_price < stop_loss, and the risk |entry_price - stop_loss| is
\* positive in both; a zone whose top equals its bottom never yields a
\* valid entry.
C28_SetupOrdered ==
    /\ (EntryReturned /\ ret.has_valid_entry) =>
          /\ args.direction = "buy" =>
                /\ ret.setup.stop_loss < ret.setup.entry_price
                /\ ret.setup.entry_price < ret.setup.take_profit
          /\ args.direction = "sell" =>
                /\ ret.setup.take_profit < ret.setup.entry_price
                /\ ret.setup.entry_price < ret.setup.stop_loss
          /\ Abs(ret.setup.entry_price - ret.setup.stop_loss) > 0
          /\ args.zone.top_price > args.zone.bottom_price
    /\ (EntryReturned /\ args.zone.top_price = args.zone.bottom_price) =>
          ~ret.has_valid_entry

\* a SELL accepted with the price on the top of the zone and a take profit
\* from the zone list
C28_Witness ==
    /\ EntryReturned /\ ret.has_valid_entry
    /\ args.direction = "sell"
    /\ ret.setup.entry_price = args.zone.top_price
    /\ \E z \in Range(args.all_zones) : ret.setup.take_profit = z.top_price

\* a BUY accepted with the price below the zone, within half its size
BuyBelowZone ==
    /\ EntryReturned /\ ret.has_valid_entry
    /\ args.direction = "buy"
    /\ ret.setup.entry_price < args.zone.bottom_price

\* the price on a zone of size 0 with confirmations enough, refused for a
\* risk of 0
ZeroSizeZoneRefusedAtRisk ==
    /\ EntryReturned /\ ~ret.has_valid_entry
    /\ args.zone.top_price = args.zone.bottom_price
    /\ ret.reasoning = <<"R:R too low", Ratio(0, 1)>>

-----------------------------------------------------------------------------
(* The calls of filter_overlapping_zones *)

FilterRanges == {<<8, 0>>, <<12, 4>>, <<16, 8>>, <<24, 20>>, <<8, 8>>}

FilterZones ==
    {Zone(r[1], r[2], "demand", s, o, FALSE, 0) :
        r \in FilterRanges, s \in {"strong", "moderate", "weak"}, o \in 1..2}

SeqsUpTo(S, n) == UNION {[1..k -> S] : k \in 0..n}

InitFilter == Idle /\ cfg = DEFAULT_SMC_CONFIG

CallFilterOverlappingZones ==
    /\ op = "idle"
    /\ \E zones \in SeqsUpTo(FilterZones, FilterMaxZones) :
        /\ op' = "filter_overlapping_zones"
        /\ args' = [zones |-> zones]
        /\ ret' = filter_overlapping_zones(zones)
    /\ UNCHANGED <<cfg, clock, results, scanner, calls>>

NextFilter == CallFilterOverlappingZones

SpecFilter == InitFilter /\ [][NextFilter]_vars

-----------------------------------------------------------------------------
(* Claims about filter_overlapping_zones *)

FilterReturned == op = "filter_overlapping_zones"

\* the price ranges [bottom, top] of a and b have a point in common
RangesIntersect(a, b) ==
    \E p \in a.bottom_price..a.top_price :
        b.bottom_price <= p /\ p <= b.top_price

\* how often zone z occurs in list s
Occurrences(s, z) == Cardinality({i \in 1..Len(s) : s[i] = z})

\* C3: filter_overlapping_zones returns zones of its input (none more often
\* than the input holds it), no two of which have intersecting price ranges,
\* and the result is non-empty whenever the input is non-empty.
C3_FilterNoOverlap ==
    FilterReturned =>
        /\ \A i \in 1..Len(ret) :
              Occurrences(ret, ret[i]) <= Occurrences(args.zones, ret[i])
        /\ \A i, j \in 1..Len(ret) :
              i # j => ~RangesIntersect(ret[i], ret[j])
        /\ (Len(args.zones) > 0 => Len(ret) > 0)

\* C3 witness: three zones went in, two of them overlapping, two came out
C3_Witness ==
    /\ FilterReturned
    /\ Len(args.zones) = 3
    /\ Len(ret) = 2
    /\ \E i, j \in 1..3 : i # j /\ RangesIntersect(args.zones[i], args.zones[j])

\* the positions of the input that form a group: zones that
\* pairwise overlap each other and overlap no zone outside the group
IsOverlapGroup(zones, G) ==
    /\ G # {}
    /\ \A i, j \in G : RangesIntersect(zones[i], zones[j])
    /\ \A i \in G : \A k \in (1..Len(zones)) \ G :
            ~RangesIntersect(zones[i], zones[k])

\* the positions of the result that hold a zone of group G
KeptOf(zones, G, result) ==
    {k \in 1..Len(result) : \E i \in G : zones[i] = result[k]}

\* C4 as stated: of every group exactly one zone is kept, the one of the
\* highest strength rank and, among equal strength, of the largest
\* origin_candle_index.
C4_KeepsMostRecent ==
    FilterReturned =>
        \A G \in SUBSET (1..Len(args.zones)) :
            IsOverlapGroup(args.zones, G) =>
                /\ Cardinality(KeptOf(args.zones, G, ret)) = 1
                /\ \A k \in KeptOf(args.zones, G, ret) : \A i \in G :
                    \/ strength_order(ret[k].strength)
                          > strength_order(args.zones[i].strength)
                    \/ /\ strength_order(ret[k].strength)
                             = strength_order(args.zones[i].strength)
                       /\ ret[k].origin_candle_index
                             >= args.zones[i].origin_candle_index

\* C4 amended: of every group exactly one zone is kept, the one of the
\* highest strength rank and, among equal strength, of the smallest
\* origin_candle_index (the earliest origin).
C4_KeepsStrongestEarliest ==
    FilterReturned =>
        \A G \in SUBSET (1..Len(args.zones)) :
            IsOverlapGroup(args.zones, G) =>
                /\ Cardinality(KeptOf(args.zones, G, ret)) = 1
                /\ \A k \in KeptOf(args.zones, G, ret) : \A i \in G :
                    \/ strength_order(ret[k].strength)
                          > strength_order(args.zones[i].strength)
                    \/ /\ strength_order(ret[k].strength)
                             = strength_order(args.zones[i].strength)
                       /\ ret[k].origin_candle_index
                             <= args.zones[i].origin_candle_index

\* C4 witness: a group of two zones of equal strength and different origin
\* beside a zone outside the group
C4_Witness ==
    /\ FilterReturned
    /\ Len(args.zones) = 3
    /\ IsOverlapGroup(args.zones, {1, 2})
    /\ args.zones[1].strength = args.zones[2].strength
    /\ args.zones[1].origin_candle_index > args.zones[2].origin_candle_index
    /\ Len(ret) = 2

-----------------------------------------------------------------------------
(* Zone.freshness_score under a running clock *)

FreshZones ==
    {Zone(56, 40, "demand", "strong", 3, FALSE, c) : c \in {0, 1000, 2 * MsPerHour}}

FreshMaxAges == {168, 24}

\* the first reading is taken at the zone's creation or, where the
\* timestamps allow it, one hour before it
InitFresh ==
    /\ cfg = DEFAULT_SMC_CONFIG
    /\ clock = 0 /\ results = << >>
    /\ scanner = SignalScanner /\ calls = << >>
    /\ op = "freshness_score"
    /\ \E z \in FreshZones, max_age \in FreshMaxAges :
        \E now \in {z.created_at, z.created_at - MsPerHour} :
            /\ now >= 0
            /\ args = [zone |-> z, current_timestamp |-> now,
                       max_age_hours |-> max_age]
            /\ ret = freshness_score(z, now, max_age)

\* the clock moves on by d milliseconds and the score is read again
ReadFreshness(d) ==
    /\ op = "freshness_score"
    /\ LET now == args.current_timestamp + d
       IN  /\ now <= args.zone.created_at + FreshMaxHours * MsPerHour + FreshMaxMs
           /\ (now - args.zone.created_at) % MsPerHour <= FreshMaxMs
           /\ args' = [args EXCEPT !.current_timestamp = now]
           /\ ret' = freshness_score(args.zone, now, args.max_age_hours)
    /\ UNCHANGED <<op, cfg, clock, results, scanner, calls>>

ClockMillisecond == ReadFreshness(1)

ClockHour == ReadFreshness(MsPerHour)

NextFresh == ClockMillisecond \/ ClockHour

SpecFresh == InitFresh /\ [][NextFresh]_vars

-----------------------------------------------------------------------------
(* Claims about Zone.freshness_score *)

FreshReturned == op = "freshness_score"

\* a < b for two ratios; the scores of one zone share their denominator
RatLess(a, b) ==
    IF a.den = b.den THEN a.num < b.num ELSE a.num * b.den < b.num * a.den

\* the age in milliseconds of the zone of the call, under the arguments a
AgeMs(a) == a.current_timestamp - a.zone.created_at

\* C6 (first and last part): for a zone with a recorded creation time the
\* score is 1.0 when now equals created_at and exactly 0 for every age >=
\* max_age_hours.
C6_FreshnessEnds ==
    (FreshReturned /\ args.zone.created_at # 0) =>
        /\ (AgeMs(args) = 0 => ret.num = ret.den)
        /\ (AgeMs(args) >= args.max_age_hours * MsPerHour => ret.num = 0)

\* C6: for a zone with a recorded creation time, freshness_score is 1.0 at
\* age 0, strictly smaller for a strictly larger age while age <
\* max_age_hours, and exactly 0 for every age >= max_age_hours.
C6_FreshnessDecays ==
    /\ []C6_FreshnessEnds
    /\ [][(FreshReturned /\ args.zone.created_at # 0
            /\ AgeMs(args) < args.max_age_hours * MsPerHour
            /\ AgeMs(args') > AgeMs(args))
          => RatLess(ret', ret)]_vars

\* C6 witness: the score read 59 minutes 59.999 seconds before the zone
\* reaches max_age_hours, decayed from 1.0 and still positive
C6_Witness ==
    /\ FreshReturned
    /\ args.zone.created_at # 0
    /\ AgeMs(args) = args.max_age_hours * MsPerHour + 1 - MsPerHour
    /\ ret.num > 0
    /\ ret.num < ret.den

\* C25: the freshness score lies in [0, 1] for every zone and every time
\* of reading, a time before the zone's created_at included.
C25_FreshnessClamped ==
    FreshReturned => (ret.num >= 0 /\ ret.num <= ret.den)

\* the score is read an hour before the zone was created and exceeds 1
ReadBeforeCreation ==
    /\ FreshReturned
    /\ args.zone.created_at # 0
    /\ args.current_timestamp = args.zone.created_at - MsPerHour
    /\ ret.num > ret.den

\* the score is within [0, 1] whenever it is read at or after the creation
ClampedFromCreationOn ==
    (FreshReturned /\ args.current_timestamp >= args.zone.created_at) =>
        (ret.num >= 0 /\ ret.num <= ret.den)

-----------------------------------------------------------------------------
(* The calls of detect_swing_points and classify_swing_points *)

\* <<high, low>> of the candles handed to detect_swing_points
SwingShapes == {<<12, 4>>, <<16, 8>>, <<8, 0>>, <<12, 8>>, <<16, 0>>}

\* candle i (from 0) is stamped i
SwingSeries(shapes) ==
    [i \in 1..Len(shapes) |->
        Candle(i - 1, shapes[i][2], shapes[i][1], shapes[i][2], shapes[i][1])]

SwingPrices == {4, 8, 12}

\* unclassified swings, the k-th with index k - 1
SwingLists ==
    UNION {[1..k -> SwingPrices \X BOOLEAN] : k \in 0..SwingMaxPoints}

SwingList(l) ==
    [k \in 1..Len(l) |->
        SwingPoint(l[k][1], k - 1, l[k][2], k - 1, Unclassified, 0)]

InitSwing == Idle /\ cfg = DEFAULT_SMC_CONFIG

CallDetectSwingPoints ==
    /\ op = "idle"
    /\ \E shapes \in SeqsUpTo(SwingShapes, SwingMaxCandles),
          lookback \in 0..SwingMaxLookback :
        /\ op' = "detect_swing_points"
        /\ args' = [candles |-> SwingSeries(shapes), lookback |-> lookback]
        /\ ret' = detect_swing_points(SwingSeries(shapes), lookback)
    /\ UNCHANGED <<cfg, clock, results, scanner, calls>>

CallClassifySwingPoints ==
    /\ op = "idle"
    /\ \E l \in SwingLists :
        /\ op' = "classify_swing_points"
        /\ args' = [swing_points |-> SwingList(l)]
        /\ ret' = classify_swing_points(SwingList(l))
    /\ UNCHANGED <<cfg, clock, results, scanner, calls>>

NextSwing == CallDetectSwingPoints \/ CallClassifySwingPoints

SpecSwing == InitSwing /\ [][NextSwing]_vars

-----------------------------------------------------------------------------
(* Claims about the swing functions *)

\* the first position of the list that holds a swing of the given kind
IsFirstOfKind(swings, k, is_high) ==
    /\ swings[k].is_high = is_high
    /\ \A j \in 1..(k - 1) : swings[j].is_high # is_high

\* C7: classify_swing_points labels the first swing with is_high = true HH
\* and the first swing with is_high = false LL, whatever their prices and
\* whatever swings of the other kind precede them; both get swing_size 0.
C7_FirstSwingsSeeded ==
    op = "classify_swing_points" =>
        /\ Len(ret) = Len(args.swing_points)
        /\ \A k \in 1..Len(ret) :
            /\ ret[k].price = args.swing_points[k].price
            /\ ret[k].is_high = args.swing_points[k].is_high
            /\ IsFirstOfKind(args.swing_points, k, TRUE) =>
                    ret[k].swing_type = "HH" /\ ret[k].swing_size = 0
            /\ IsFirstOfKind(args.swing_points, k, FALSE) =>
                    ret[k].swing_type = "LL" /\ ret[k].swing_size = 0

\* C7 witness: the first low comes after two highs and lies above both
C7_Witness ==
    /\ op = "classify_swing_points"
    /\ Len(ret) = 3
    /\ ret[1].is_high /\ ret[2].is_high /\ ~ret[3].is_high
    /\ ret[3].price > ret[1].price /\ ret[3].price > ret[2].price
    /\ ret[3].swing_type = "LL"

\* C8: for every lookback L and every series of fewer than 2L+1 candles,
\* detect_swing_points returns an empty list; for longer series only
\* indices i with L <= i < len-L are reported, in index-ascending order.
C8_SwingWindow ==
    op = "detect_swing_points" =>
        LET n == Len(args.candles)
            L == args.lookback
        IN  /\ (n < 2 * L + 1 => ret = << >>)
            /\ \A k \in 1..Len(ret) :
                    L <= ret[k].index /\ ret[k].index < n - L
            /\ \A k \in 1..(Len(ret) - 1) : ret[k].index <= ret[k + 1].index

\* C8 witness: six candles, L = 2: the last index that may be reported,
\* 3 = len - L - 1, is reported, after index 2
C8_Witness ==
    /\ op = "detect_swing_points"
    /\ args.lookback = 2
    /\ Len(args.candles) = 6
    /\ Len(ret) = 2
    /\ ret[1].index = 2
    /\ ret[2].index = 3

-----------------------------------------------------------------------------
(* The calls of refine_zone *)

RefineZones ==
    {Zone(80, 40, "demand", "strong", 3, FALSE, 7),
     Zone(80, 40, "supply", "moderate", 5, TRUE, 9),
     Zone(48, 48, "demand", "moderate", 2, FALSE, 0)}

\* candles that open and close inside [40, 80], one that only closes
\* inside it, one outside it, and a flat one
RefineCandles ==
    {Candle(0, 44, 76, 40, 48), Candle(0, 48, 72, 44, 52),
     Candle(0, 76, 80, 44, 72), Candle(0, 36, 84, 32, 44),
     Candle(0, 100, 104, 96, 100), Candle(0, 48, 48, 48, 48)}

Stamped(candles) ==
    [i \in 1..Len(candles) |-> [candles[i] EXCEPT !.timestamp = i]]

InitRefine == Idle /\ cfg = DEFAULT_SMC_CONFIG

CallRefineZone ==
    /\ op = "idle"
    /\ \E zone \in RefineZones,
          candles \in SeqsUpTo(RefineCandles, RefineMaxCandles) :
        /\ op' = "refine_zone"
        /\ args' = [major_zone |-> zone, zone_candles |-> << >>,
                    refinement_candles |-> Stamped(candles)]
        /\ ret' = refine_zone(zone, << >>, Stamped(candles))
    /\ UNCHANGED <<cfg, clock, results, scanner, calls>>

NextRefine == CallRefineZone

SpecRefine == InitRefine /\ [][NextRefine]_vars

-----------------------------------------------------------------------------
(* Claims about refine_zone *)

\* the lower-timeframe candles of the call that open or close inside the zone
InsideZone(a) ==
    {i \in 1..Len(a.refinement_candles) :
        \/ price_in_zone(a.major_zone, a.refinement_candles[i].open)
        \/ price_in_zone(a.major_zone, a.refinement_candles[i].close)}

\* the size of the refined range the call computes
RefinedSize(a) ==
    LET b == refined_bounds(a.major_zone,
                            zone_candles_ltf(a.major_zone, a.refinement_candles))
    IN  b[1] - b[2]

-----------------------------------------------------------------------------
(* The calls of detect_zones, on a series that grows candle by candle *)

\* a doji, a strong bullish candle, a moderate bearish candle and a spike
ZoneCandles ==
    {Candle(0, 100, 104, 96, 100), Candle(0, 100, 124, 100, 120),
     Candle(0, 100, 104, 72, 80), Candle(0, 100, 132, 96, 104)}

\* the candle c as the candle number i (from 0) of the series
ZoneCandleAt(c, i) ==
    [c EXCEPT !.timestamp = (i + 1) * ZonesCandleHours * MsPerHour]

\* the series before any candle is appended: dojis, one short of the
\* number detect_zones needs
ZoneQuietSeries ==
    [i \in 1..(ZoneMinCandles - 1) |->
        ZoneCandleAt(Candle(0, 100, 104, 96, 100), i - 1)]

InitZones == Idle /\ cfg = DEFAULT_SMC_CONFIG

CallDetectZones ==
    /\ op = "idle"
    /\ \E control \in {"buyers", "sellers", "neutral"},
          filter_overlaps \in BOOLEAN :
        /\ op' = "detect_zones"
        /\ args' = [candles |-> ZoneQuietSeries, control |-> control,
                    current_price |-> 100,
                    filter_overlaps |-> filter_overlaps]
        /\ ret' = detect_zones(ZoneQuietSeries, control, 100, filter_overlaps)
    /\ UNCHANGED <<cfg, clock, results, scanner, calls>>

\* a candle closes and detect_zones runs again on the longer series
AppendCandle ==
    /\ op = "detect_zones"
    /\ Len(args.candles) < ZoneMinCandles - 1 + ZonesMaxAppend
    /\ \E c \in ZoneCandles :
        LET candles == Append(args.candles,
                              ZoneCandleAt(c, Len(args.candles)))
        IN  /\ args' = [args EXCEPT !.candles = candles]
            /\ ret' = detect_zones(candles, args.control, args.current_price,
                                   args.filter_overlaps)
    /\ UNCHANGED <<op, cfg, clock, results, scanner, calls>>

NextZones == CallDetectZones \/ AppendCandle

SpecZones == InitZones /\ [][NextZones]_vars

-----------------------------------------------------------------------------
(* Claims about detect_zones *)

\* the zone z is reported by the result r, mitigated
ReportedMitigated(r, z) ==
    \E y \in Range(r.all_zones) :
        /\ y.origin_candle_index = z.origin_candle_index
        /\ y.top_price = z.top_price
        /\ y.bottom_price = z.bottom_price
        /\ y.type = z.type
        /\ y.mitigated

\* the series s with candles appended gives the series t
IsExtension(s, t) == Len(t) > Len(s) /\ SubSeq(t, 1, Len(s)) = s

\* C5: with overlap filtering off, a zone that detect_zones reports as
\* mitigated on a series is reported, with the same origin index, bounds
\* and type, as mitigated on the series with further candles appended.
C5_MitigationMonotonic ==
    [][(/\ op = "detect_zones" /\ op' = "detect_zones"
        /\ ~args.filter_overlaps /\ ~args'.filter_overlaps
        /\ IsExtension(args.candles, args'.candles))
       => \A z \in Range(ret.all_zones) :
              z.mitigated => ReportedMitigated(ret', z)]_vars

\* a zone mitigated on the series without its last candle is reported on
\* the whole series, whose last candle does not itself mitigate it
C5_Witness ==
    /\ op = "detect_zones"
    /\ ~args.filter_overlaps
    /\ Len(args.candles) > ZoneMinCandles
    /\ LET n == Len(args.candles)
           before == detect_zones(SubSeq(args.candles, 1, n - 1),
                                  args.control, args.current_price, FALSE)
       IN  \E z \in Range(before.all_zones) :
              /\ z.mitigated
              /\ ReportedMitigated(ret, z)
              /\ z.type = "demand"
              /\ args.candles[n].low >= z.bottom_price

-----------------------------------------------------------------------------
(* The runs of SMCStrategy.analyze *)

\* candles of the series: a doji, a strong bullish candle, a moderate
\* bearish one, a spike, a wide doji, a full bullish and a full bearish
\* candle, two small candles and two that start off 400
ChartCandles ==
    <<Candle(0, 400, 416, 384, 400),
      Candle(0, 400, 496, 400, 480),
      Candle(0, 400, 416, 288, 320),
      Candle(0, 400, 528, 384, 416),
      Candle(0, 400, 448, 352, 400),
      Candle(0, 400, 432, 400, 432),
      Candle(0, 400, 400, 368, 368),
      Candle(0, 400, 408, 396, 404),
      Candle(0, 400, 404, 392, 396),
      Candle(0, 384, 400, 368, 400),
      Candle(0, 416, 432, 400, 400)>>

\* the series of the candles numbered by shape, one every step hours
Chart(shapes, step) ==
    [i \in 1..Len(shapes) |->
        [ChartCandles[shapes[i]] EXCEPT !.timestamp = i * step * MsPerHour]]

\* higher-timeframe series: with a demand zone, with a supply zone, one
\* whose 4H clarity is below 50, one without a tradable zone, an unclear
\* one, one with higher highs and lows and a supply zone, one with lower
\* highs and lows and a demand zone
AnalyzeCharts ==
    {<<4, 7, 6, 7, 2, 4, 2, 4, 7, 6>>, <<2, 1, 5, 4, 1, 7, 5, 1, 2, 6>>,
     <<3, 5, 6, 7, 4, 6, 7, 3, 3, 4>>, <<2, 4, 6, 1, 1, 7, 5, 1, 3, 5, 1>>,
     <<1, 5, 4, 2, 7, 3, 2, 4, 4, 1>>,
     <<1, 3, 4, 5, 7, 5, 6, 1, 3, 7, 4>>,
     <<3, 5, 6, 5, 6, 4, 4, 6, 2, 3, 7>>}

\* entry series, the last one ending near a zone without a confirmation
AnalyzeEntries ==
    {<<6, 2, 7, 8, 7>>, <<11, 10, 1, 10, 10>>, <<6, 10, 3, 6, 6>>,
     <<3, 10, 1, 3, 3>>, <<1, 1, 1, 3, 8>>}

AnalyzeInstruments ==
    {InstrumentData("EURUSD", "forex", price,
        [MultiTimeframeData EXCEPT
            !.d1 = Chart(chart, 4), !.h4 = Chart(chart, 4),
            !.h2 = Chart(chart, 4), !.m15 = Chart(chart, 4),
            !.m3 = Chart(entry, 1)]) :
        price \in {368, 400, 432}, chart \in AnalyzeCharts,
        entry \in AnalyzeEntries}

\* the configurations of the strategy: the default one, under which these
\* series are too short to be clear, and one for short series
AnalyzeConfigs ==
    {DEFAULT_SMC_CONFIG,
     [DEFAULT_SMC_CONFIG EXCEPT !.min_candles = 10, !.swing_lookback = 1]}

\* the nondecreasing sequences of n clock readings from the time from on
RECURSIVE ClockReads(_, _)
ClockReads(from, n) ==
    IF n = 0 THEN {<< >>}
    ELSE UNION {{<<t>> \o rest : rest \in ClockReads(t, n - 1)} :
                t \in {from + k * ClockTickMs :
                         k \in 0..(ClockMaxTicks - from \div ClockTickMs)}}

InitAnalyze == Idle /\ cfg \in AnalyzeConfigs

Analyze ==
    /\ Len(results) < AnalyzeMaxRuns
    /\ \E instrument \in
            (IF op = "idle" THEN AnalyzeInstruments ELSE {args.instrument}) :
        \E work \in {AnalyzeWork(instrument, cfg)} :
            \E reads \in ClockReads(clock, ReadsOf(work)),
               uuids \in [1..Len(SignalPasses(work)) -> 1..UuidValues] :
                /\ op' = "analyze"
                /\ args' = [instrument |-> instrument]
                /\ ret' = StrategyResultOf(instrument, work, reads, uuids)
                /\ results' = Append(results, ret')
                /\ clock' = reads[Len(reads)]
    /\ UNCHANGED <<cfg, scanner, calls>>

NextAnalyze == Analyze

SpecAnalyze == InitAnalyze /\ [][NextAnalyze]_vars

-----------------------------------------------------------------------------
(* Claims about SMCStrategy.analyze *)

Unstamped(signal) ==
    [signal EXCEPT !.id = << >>, !.created_at = 0, !.expires_at = 0]

\* a StrategyResult without them and without the analysis time
WithoutStamps(r) ==
    [r EXCEPT !.analysis_time_ms = 0,
              !.signals = [k \in 1..Len(r.signals) |-> Unstamped(r.signals[k])]]

-----------------------------------------------------------------------------
(* The calls of detect_zones, detect_entry and analyze_clarity on series of
   every length from the empty one up *)

\* longest candle series handed to the three functions
ShortMaxLen == 10

\* the first n candles of a series, all of them where it has fewer
Prefix(s, n) == SubSeq(s, 1, MinOf({n, Len(s)}))

ShortSeries ==
    {Prefix(Chart(chart, 4), n) : chart \in AnalyzeCharts, n \in 0..ShortMaxLen}

ShortConfigs ==
    {[DEFAULT_SMC_CONFIG EXCEPT !.min_candles = n, !.swing_lookback = 1] :
        n \in {5, 10}}

InitShort == Idle /\ cfg \in ShortConfigs

CallShortDetectZones ==
    /\ op = "idle"
    /\ \E candles \in ShortSeries, control \in {"buyers", "neutral"},
          filter_overlaps \in BOOLEAN :
        /\ op' = "detect_zones"
        /\ args' = [candles |-> candles, control |-> control,
                    current_price |-> 400,
                    filter_overlaps |-> filter_overlaps]
        /\ ret' = detect_zones(candles, control, 400, filter_overlaps)
    /\ UNCHANGED <<cfg, clock, results, scanner, calls>>

CallShortDetectEntry ==
    /\ op = "idle"
    /\ \E candles \in ShortSeries, direction \in {"buy", "sell"},
          target \in {None, Some(480)} :
        LET zone == Zone(432, 368, "demand", "strong", 3, FALSE, 0)
        IN  /\ op' = "detect_entry"
            /\ args' = [candles |-> candles, zone |-> zone,
                        direction |-> direction, target_price |-> target,
                        all_zones |-> << >>]
            /\ ret' = detect_entry(candles, zone, direction, target, << >>)
    /\ UNCHANGED <<cfg, clock, results, scanner, calls>>

CallAnalyzeClarity ==
    /\ op = "idle"
    /\ \E candles \in ShortSeries, timeframe \in {"15M", "4H"} :
        /\ op' = "analyze_clarity"
        /\ args' = [candles |-> candles, timeframe |-> timeframe]
        /\ ret' = analyze_clarity(candles, timeframe, cfg)
    /\ UNCHANGED <<cfg, clock, results, scanner, calls>>

NextShort ==
    CallShortDetectZones \/ CallShortDetectEntry \/ CallAnalyzeClarity

SpecShort == InitShort /\ [][NextShort]_vars

-----------------------------------------------------------------------------
(* Claims about insufficient data *)

\* C12: insufficient data gives a neutral result and no exception:
\* detect_zones on fewer than 10 candles returns empty tradable, unmitigated
\* and all-zones lists with the reasoning "Insufficient candles";
\* detect_entry on fewer than 5 candles returns has_valid_entry = false, no
\* setup and the reasoning "Insufficient candles"; analyze_clarity on fewer
\* than min_candles candles returns score 0 and is_clear = false.
C12_InsufficientIsNeutral ==
    /\ (op = "detect_zones" /\ Len(args.candles) < 10) =>
            /\ ~IsRaised(ret)
            /\ ret.tradable_zones = << >>
            /\ ret.unmitigated_supply = << >>
            /\ ret.unmitigated_demand = << >>
            /\ ret.all_zones = << >>
            /\ ret.reasoning = <<"Insufficient candles">>
    /\ (op = "detect_entry" /\ Len(args.candles) < 5) =>
            /\ ~IsRaised(ret)
            /\ ~ret.has_valid_entry
            /\ ret.setup = NoSetup
            /\ ret.reasoning = <<"Insufficient candles">>
    /\ (op = "analyze_clarity" /\ Len(args.candles) < cfg.min_candles) =>
            /\ ~IsRaised(ret)
            /\ ret.score = 0
            /\ ~ret.is_clear

\* C12 witness: detect_zones called on the empty series
C12_Witness ==
    /\ op = "detect_zones"
    /\ args.candles = << >>
    /\ ret.reasoning = <<"Insufficient candles">>

-----------------------------------------------------------------------------
(* The calls of determine_trend, and of analyze_clarity on the rising
   series of test_clarity_analysis_clear_market *)

\* longest swing list handed to determine_trend
TrendMaxSwings == 7

\* number of candles of the rising series
ScenarioCandles == 25

SwingTypes == {"HH", "HL", "LH", "LL", Unclassified}

\* swings of the given types, the k-th with index k - 1
TypedSwings(types) ==
    [k \in 1..Len(types) |->
        SwingPoint(8, k - 1, types[k] \in {"HH", "LH"}, k - 1, types[k], 4)]

\* create_bullish_candle(i) with its prices times 40: open = 100 + 0.1 i,
\* high = 101 + 0.1 i, low = 99.5 + 0.1 i, close = 100.8 + 0.1 i
create_bullish_candle(idx) ==
    Candle(idx * 60000, 4000 + 4 * idx, 4040 + 4 * idx, 3980 + 4 * idx,
           4032 + 4 * idx)

\* the first n candles of the rising series
RisingSeries(n) == [i \in 1..n |-> create_bullish_candle(i - 1)]

InitTrend == Idle /\ cfg = DEFAULT_SMC_CONFIG

CallDetermineTrend ==
    /\ op = "idle"
    /\ \E types \in SeqsUpTo(SwingTypes, TrendMaxSwings),
          candles \in {<< >>, RisingSeries(5)} :
        /\ op' = "determine_trend"
        /\ args' = [candles |-> candles, swing_points |-> TypedSwings(types)]
        /\ ret' = determine_trend(candles, TypedSwings(types))
    /\ UNCHANGED <<cfg, clock, results, scanner, calls>>

\* analyze_clarity(candles): timeframe "15M" and DEFAULT_SMC_CONFIG
CallClarityRising ==
    /\ op = "idle"
    /\ \E n \in 0..ScenarioCandles :
        /\ op' = "analyze_clarity"
        /\ args' = [candles |-> RisingSeries(n), timeframe |-> "15M"]
        /\ ret' = analyze_clarity(RisingSeries(n), "15M", DEFAULT_SMC_CONFIG)
    /\ UNCHANGED <<cfg, clock, results, scanner, calls>>

NextTrend == CallDetermineTrend \/ CallClarityRising

SpecTrend == InitTrend /\ [][NextTrend]_vars

-----------------------------------------------------------------------------
(* Claims about determine_trend and the rising series *)

\* C13 as stated: for the 25 rising candles analyze_clarity with the
\* default configuration returns trend_consistency > 0, structure_clarity
\* > 0 and a score > 0, and determine_trend over the classified swings of
\* the series is not sideways once at least 4 swings are classified.
C13_RisingSeriesIsClear ==
    (op = "analyze_clarity" /\ Len(args.candles) = ScenarioCandles) =>
        /\ ret.trend_consistency.num > 0
        /\ ret.structure_clarity.num > 0
        /\ ret.score > 0
        /\ LET swings == classify_swing_points(
                   detect_swing_points(args.candles,
                                       DEFAULT_SMC_CONFIG.swing_lookback))
           IN  Len(swings) >= 4 =>
                    determine_trend(args.candles, swings) # "sideways"

\* the swing types of the positions of a list that are among its last 6
RecentCount(swings, types) ==
    Cardinality({i \in 1..Len(swings) :
                    i > Len(swings) - 6 /\ swings[i].swing_type \in types})

\* C14: determine_trend returns sideways for fewer than 4 swings;
\* otherwise, counting the types of the last 6 swings only, bullish iff
\* HH >= 1, HL >= 1 and HH + HL > LH + LL, bearish iff LL >= 1, LH >= 1 and
\* LL + LH > HH + HL, and sideways in every other case, whatever the
\* candles and the swings before the last 6.
C14_TrendFromLastSix ==
    op = "determine_trend" =>
        LET s == args.swing_points
            up == RecentCount(s, {"HH", "HL"})
            down == RecentCount(s, {"LH", "LL"})
            bullish == /\ Len(s) >= 4
                       /\ RecentCount(s, {"HH"}) >= 1
                       /\ RecentCount(s, {"HL"}) >= 1
                       /\ up > down
            bearish == /\ Len(s) >= 4
                       /\ RecentCount(s, {"LL"}) >= 1
                       /\ RecentCount(s, {"LH"}) >= 1
                       /\ down > up
        IN  /\ ret \in {"bullish", "bearish", "sideways"}
            /\ ret = "bullish" <=> bullish
            /\ ret = "bearish" <=> bearish
            /\ ret = "sideways" <=> ~bullish /\ ~bearish

\* C14 witness: 7 swings, the first three of them lows of a falling market,
\* the last 6 with more rising than falling types: bullish
C14_Witness ==
    /\ op = "determine_trend"
    /\ args.candles # << >>
    /\ Len(args.swing_points) = 7
    /\ args.swing_points[1].swing_type = "LL"
    /\ args.swing_points[2].swing_type = "LL"
    /\ args.swing_points[3].swing_type = "LH"
    /\ RecentCount(args.swing_points, {"HH", "HL"}) = 4
    /\ ret = "bullish"

-----------------------------------------------------------------------------
(* The calls of SMCStrategy.analyze in which a call made by analyze raises *)

\* higher-timeframe series: with two and with three tradable zones that
\* give a signal each, one without a tradable zone and an unclear one
FaultCharts ==
    {<<4, 7, 6, 7, 2, 4, 2, 4, 7, 6>>, <<1, 6, 5, 1, 4, 6, 2, 4, 6, 1>>,
     <<2, 4, 6, 1, 1, 7, 5, 1, 3, 5, 1>>, <<1, 5, 4, 2, 7, 3, 2, 4, 4, 1>>,
     <<4, 1, 5, 6, 2, 4, 6, 1, 2, 4>>}

FaultEntries == {<<6, 2, 7, 8, 7>>, <<11, 10, 1, 10, 10>>}

\* zone-identification series that differ from the higher-timeframe series
FaultZoneIdCharts == {<<1, 5, 4, 2, 7, 3, 2, 4, 4, 1>>}

\* every higher-timeframe series with itself as the zone-identification
\* series, and the first of them with the unclear one
FaultInstruments ==
    {InstrumentData("EURUSD", "forex", price,
        [MultiTimeframeData EXCEPT
            !.d1 = Chart(charts[1], 4), !.h4 = Chart(charts[1], 4),
            !.h2 = Chart(charts[1], 4), !.m15 = Chart(charts[2], 4),
            !.m3 = Chart(entry, 1)]) :
        price \in {368, 400},
        charts \in {<<c, c>> : c \in FaultCharts}
                   \cup ({<<4, 7, 6, 7, 2, 4, 2, 4, 7, 6>>} \X FaultZoneIdCharts),
        entry \in FaultEntries}

\* configurations for short series, with and without the overlap filter
FaultConfigs ==
    {[DEFAULT_SMC_CONFIG EXCEPT !.min_candles = 10, !.swing_lookback = 1,
                                !.filter_overlapping_zones = f] :
        f \in BOOLEAN}

\* the call that raises, if any, and str() of the exception
Faults ==
    {[step |-> "none", call |-> 0, text |-> ""]}
    \cup {[step |-> s, call |-> 1, text |-> "fault"] :
            s \in {"_select_timeframes", "determine_trend", "detect_zones"}}
    \cup {[step |-> s, call |-> k, text |-> "fault"] :
            s \in {"refine_zone", "detect_entry"}, k \in 1..3}

InitFaults == Idle /\ cfg \in FaultConfigs

AnalyzeWithFault ==
    /\ op = "idle"
    /\ \E instrument \in FaultInstruments, fault \in Faults :
        \E work \in {WorkWithFault(AnalyzeWork(instrument, cfg), fault)} :
            \E reads \in ClockReads(clock, ReadsOf(work)),
               uuids \in [1..Len(SignalPasses(work)) -> 1..UuidValues] :
                /\ op' = "analyze"
                /\ args' = [instrument |-> instrument, fault |-> fault]
                /\ ret' = StrategyResultOf(instrument, work, reads, uuids)
                /\ results' = Append(results, ret')
                /\ clock' = reads[Len(reads)]
    /\ UNCHANGED <<cfg, scanner, calls>>

NextFaults == AnalyzeWithFault

SpecFaults == InitFaults /\ [][NextFaults]_vars

-----------------------------------------------------------------------------
(* Claims about exceptions in SMCStrategy.analyze *)

\* what analyze computes for the instrument of the call when nothing raises
FaultFreeWork == AnalyzeWork(args.instrument, cfg)

\* the call named by the fault is made, so the exception is raised
FaultRaised ==
    /\ op = "analyze"
    /\ args.fault.step # "none"
    /\ \/ args.fault.step = "_select_timeframes"
       \/ /\ FaultFreeWork.tf_selection.is_clear
          /\ \/ args.fault.step \in {"determine_trend", "detect_zones"}
             \/ /\ args.fault.step \in {"refine_zone", "detect_entry"}
                /\ args.fault.call <= Len(FaultFreeWork.passes)

\* the passes that built a signal before the call that raises
SignalsBeforeFault ==
    IF args.fault.step \notin {"refine_zone", "detect_entry"} THEN << >>
    ELSE SignalPasses([passes |->
            SubSeq(FaultFreeWork.passes, 1, args.fault.call - 1)])

\* C15: when a call made by analyze raises (timeframe selection, trend,
\* zone detection or the processing of the k-th candidate zone), analyze
\* returns a StrategyResult whose errors hold the text of the exception and
\* whose signals are the signals built for the zones processed before it.
C15_FaultIsRecorded ==
    FaultRaised =>
        /\ ~IsRaised(ret)
        /\ ret.strategy_id = SMC_CONFIG.id
        /\ \E i \in 1..Len(ret.errors) : ret.errors[i] = args.fault.text
        /\ Len(ret.signals) = Len(SignalsBeforeFault)
        /\ \A i \in 1..Len(ret.signals) :
              ret.signals[i].entry_setup
                  = SignalsBeforeFault[i].entry_result.setup

\* C15 witness: the third candidate zone raises after the first two gave a
\* signal each
C15_Witness ==
    /\ FaultRaised
    /\ args.fault.step = "refine_zone"
    /\ args.fault.call = 3
    /\ Len(ret.signals) = 2
    /\ ret.errors = <<"fault">>

-----------------------------------------------------------------------------
(* Claims about the early exits of SMCStrategy.analyze *)

\* the result of the early exits: no signal, no pending setup, no error
EmptyResult ==
    /\ ~IsRaised(ret)
    /\ ret.strategy_id = SMC_CONFIG.id
    /\ ret.signals = << >>
    /\ ret.pending_setups = << >>
    /\ ret.errors = << >>

\* the timeframe selection of the call is made and is not clear
GateOneClosed ==
    /\ op = "analyze"
    /\ args.fault.step # "_select_timeframes"
    /\ ~FaultFreeWork.tf_selection.is_clear

\* the selection is clear and the major-zone series has no tradable zone
GateTwoClosed ==
    /\ op = "analyze"
    /\ args.fault.step \in {"none", "refine_zone", "detect_entry"}
    /\ FaultFreeWork.tf_selection.is_clear
    /\ FaultFreeWork.major_zones_result.tradable_zones = << >>

\* C16: when the timeframe selection is not clear, analyze returns no
\* signal, no pending setup and no error, and makes none of the later calls
\* (trend, zone detection, refinement, entry detection): one that would
\* raise is not reached; when the selection is clear and zone detection
\* gives no tradable zone, analyze returns the same empty result without
\* calling refine_zone or detect_entry; a signal is returned only when the
\* selection was clear and a tradable zone was found.
C16_GatesOrderedAndFinal ==
    /\ GateOneClosed => EmptyResult
    /\ GateTwoClosed => EmptyResult
    /\ (op = "analyze" /\ ret.signals # << >>) =>
          /\ FaultFreeWork.tf_selection.is_clear
          /\ FaultFreeWork.major_zones_result.tradable_zones # << >>

\* C16 witness: a clear selection without a tradable zone, where the first
\* refine_zone would raise
C16_Witness ==
    /\ GateTwoClosed
    /\ args.fault.step = "refine_zone"
    /\ args.fault.call = 1
    /\ FaultFreeWork.major_zones_result.all_zones # << >>
    /\ EmptyResult

\* the first gate closed over tradable major zones, where zone detection
\* would raise
GateOneOverTradableZones ==
    /\ GateOneClosed
    /\ args.fault.step = "detect_zones"
    /\ FaultFreeWork.major_zones_result.tradable_zones # << >>
    /\ EmptyResult

-----------------------------------------------------------------------------
(* Claims about the control bias of SMCStrategy.analyze *)

\* the context series of the instrument of the call
ContextCandles ==
    IF args.instrument.data.d1 # << >> THEN args.instrument.data.d1
    ELSE args.instrument.data.h4

\* the trend the classified swings of the context series make
ClassifiedTrend ==
    determine_trend(ContextCandles,
        classify_swing_points(
            detect_swing_points(ContextCandles, cfg.swing_lookback)))

\* the tradable zones analyze got from zone detection, where it got that far
OfferedZones ==
    LET offered(work) ==
            IF work.tf_selection.is_clear
            THEN Range(work.major_zones_result.tradable_zones) ELSE {}
    IN  offered(AnalyzeWork(args.instrument, cfg))

\* C17: the control bias analyze hands to zone detection follows the trend
\* of the classified swings of the context series, so that no supply zone
\* is offered as tradable when that trend is bullish and no demand zone
\* when it is bearish.
C17_ControlFollowsTrend ==
    op = "analyze" =>
        /\ ClassifiedTrend = "bullish" =>
              \A z \in OfferedZones : z.type # "supply"
        /\ ClassifiedTrend = "bearish" =>
              \A z \in OfferedZones : z.type # "demand"

\* a sell signal at a supply zone returned for a context series whose
\* classified swings make the trend bullish
SellSignalInBullishContext ==
    /\ op = "analyze"
    /\ ClassifiedTrend = "bullish"
    /\ \E i \in 1..Len(ret.signals) :
          /\ ret.signals[i].direction = "sell"
          /\ ret.signals[i].entry_setup.entry_zone.type = "supply"
          /\ ret.signals[i].market_context.h4_trend_direction = "sideways"

BullishContext == op = "analyze" /\ ClassifiedTrend = "bullish"

BearishContext == op = "analyze" /\ ClassifiedTrend = "bearish"

-----------------------------------------------------------------------------
(* Claims about the refinement of the candidate zones *)

\* the refined zones of the passes of a run, None where a pass kept the
\* major zone
RefinedZonesOf(work) ==
    [k \in 1..Len(work.passes) |->
        IF IsRaised(work.passes[k]) THEN None
        ELSE work.passes[k].refinement_result.refined_zone]

\* the instruments that differ from the one of the call at most in the
\* series of the entry-refinement timeframes
SameButEntrySeries ==
    {other \in AnalyzeInstruments :
        /\ other.symbol = args.instrument.symbol
        /\ other.current_price = args.instrument.current_price
        /\ \A tf \in {"d1", "h4", "h2", "h1", "m30", "m15"} :
              other.data[tf] = args.instrument.data[tf]}

\* C18: analyze refines each of the first three tradable zones from the
\* candles of the zone-identification timeframe alone: two instruments
\* with the same higher-timeframe and zone-identification series get the
\* same refined zones, whatever their entry-refinement series are.
C18_RefinedFromZoneIdSeries ==
    op = "analyze" =>
        \A other \in SameButEntrySeries :
            \E here \in {RefinedZonesOf(AnalyzeWork(args.instrument, cfg))},
               there \in {RefinedZonesOf(AnalyzeWork(other, cfg))} :
                here = there

\* the refined zone of a returned signal lies within the range of the
\* entry-refinement series and is gone with another entry series
RefinedFromEntrySeries ==
    /\ op = "analyze"
    /\ \E i \in 1..Len(ret.signals) :
          LET zone == ret.signals[i].entry_setup.entry_zone
              entry == args.instrument.data.m3
          IN  /\ zone \notin Range(ret.signals[i].zones.h4)
              /\ \E k \in 1..Len(entry) :
                    \/ zone.top_price = entry[k].high
                    \/ zone.bottom_price = entry[k].low

-----------------------------------------------------------------------------
(* Claims about the pending setups of SMCStrategy.analyze *)

\* the passes of a run whose entry was rejected at the confidence gate or
\* at the risk/reward gate: the evidence gathered for them reached a
\* confidence of 50 at least
RejectedWithEvidence(work) ==
    SelectSeq(work.passes,
        LAMBDA p : /\ ~IsRaised(p)
                   /\ ~p.entry_result.has_valid_entry
                   /\ p.entry_result.reasoning[1]
                          \in {"Confidence too low", "R:R too low"})

\* C19: every candidate zone that entry detection rejects after gathering
\* evidence of confidence 40 or more, at the confidence gate or at the
\* risk/reward gate, is recorded in pending_setups.
C19_RejectedArePending ==
    op = "analyze" =>
        \E rejected \in {RejectedWithEvidence(AnalyzeWork(args.instrument, cfg))} :
            Len(ret.pending_setups) >= Len(rejected)

\* a candidate rejected at the confidence gate with confidence 40..59, with
\* nothing pending
RejectedAtConfidence ==
    /\ op = "analyze"
    /\ ret.pending_setups = << >>
    /\ \E rejected \in {RejectedWithEvidence(AnalyzeWork(args.instrument, cfg))} :
          \E k \in 1..Len(rejected) :
              /\ rejected[k].entry_result.reasoning[1] = "Confidence too low"
              /\ rejected[k].entry_result.reasoning[2] \in 40..59

\* the passes of a run whose entry was accepted
AcceptedPasses(work) ==
    SelectSeq(work.passes,
        LAMBDA p : ~IsRaised(p) /\ p.entry_result.has_valid_entry)

\* C29: under the shipped strategy configuration (min_confidence 60) every
\* result of analyze has no pending setup: each candidate zone gives a
\* signal, its entry accepted with a confidence of 60 or more, or gives
\* nothing, and a call returns 3 signals at most.
C29_NothingPending ==
    op = "analyze" =>
        \E accepted \in {AcceptedPasses(WorkWithFault(FaultFreeWork, args.fault))} :
            /\ ret.pending_setups = << >>
            /\ Len(ret.signals) <= 3
            /\ Len(ret.signals) = Len(accepted)
            /\ \A i \in 1..Len(ret.signals) :
                  /\ ret.signals[i].entry_setup = accepted[i].entry_result.setup
                  /\ ret.signals[i].entry_setup.confidence >= 60

\* a run in which nothing raises, with a signal of a confidence below 70
\* and nothing pending
C29_Witness ==
    /\ op = "analyze"
    /\ args.fault.step = "none"
    /\ ret.pending_setups = << >>
    /\ \E i \in 1..Len(ret.signals) :
          ret.signals[i].entry_setup.confidence < 70

\* a run in which nothing raises, with a candidate zone refused by entry
\* detection and nothing pending
RefusedGivesNothing ==
    /\ op = "analyze"
    /\ args.fault.step = "none"
    /\ ret.pending_setups = << >>
    /\ Len(FaultFreeWork.passes) > Len(ret.signals)

\* a run over more than three tradable major zones that returns three
\* signals
ThreeSignalsOfMore ==
    /\ op = "analyze"
    /\ Len(ret.signals) = 3
    /\ Len(FaultFreeWork.major_zones_result.tradable_zones) > 3
-----------------------------------------------------------------------------
(* The calls of calculate_swing_quality_score *)

\* sizes of the swings: none, a small and a large one
QualitySizes == {0, 4, 12}

\* the longest run of older swings, of swings without a size after them and
\* of newer swings after those
QualityMaxOlder == 3

QualityMaxPad == 9

QualityMaxNewer == 2

\* classified swings of the given sizes, highs and lows in turn, the k-th
\* with index k - 1
SizedSwings(sizes) ==
    [k \in 1..Len(sizes) |->
        SwingPoint(8, k - 1, k % 2 = 1, k - 1,
                   IF k % 2 = 1 THEN "HH" ELSE "HL", sizes[k])]

InitQuality == Idle /\ cfg = DEFAULT_SMC_CONFIG

CallSwingQuality ==
    /\ op = "idle"
    /\ \E older \in SeqsUpTo(QualitySizes, QualityMaxOlder),
          pad \in 0..QualityMaxPad,
          newer \in SeqsUpTo(QualitySizes, QualityMaxNewer) :
        LET swing_points ==
                SizedSwings(older \o [k \in 1..pad |-> 0] \o newer)
        IN  /\ op' = "calculate_swing_quality_score"
            /\ args' = [swing_points |-> swing_points]
            /\ ret' = calculate_swing_quality_score(swing_points)
    /\ UNCHANGED <<cfg, clock, results, scanner, calls>>

NextQuality == CallSwingQuality

SpecQuality == InitQuality /\ [][NextQuality]_vars

-----------------------------------------------------------------------------
(* Claims about calculate_swing_quality_score *)

QualityReturned == op = "calculate_swing_quality_score"

\* the positions of the swings considered, the last 10, that have a size
SizedRecent ==
    {i \in 1..Len(args.swing_points) :
        /\ i > Len(args.swing_points) - 10
        /\ args.swing_points[i].swing_size > 0}

\* ret = 0.5 + 0.5 x (1 - (max - min) / max) over the sizes considered, a
\* value in [0.5, 1]
QualityFromSizes ==
    \E hi \in SizedRecent, lo \in SizedRecent :
        LET max == args.swing_points[hi].swing_size
            min == args.swing_points[lo].swing_size
        IN  /\ \A i \in SizedRecent :
                  /\ args.swing_points[i].swing_size <= max
                  /\ args.swing_points[i].swing_size >= min
            /\ 2 * max * ret.num = ret.den * (max + (max - (max - min)))
            /\ 2 * ret.num >= ret.den
            /\ ret.num <= ret.den

\* C21 as stated: the score is 0 whenever no considered swing has a nonzero
\* size, and 0.5 + 0.5 x (1 - (max - min)/max) over the nonzero sizes among
\* the last 10 swings otherwise.
C21_ZeroWithoutSizes ==
    QualityReturned =>
        IF SizedRecent = {} THEN ret = Ratio(0, 1) ELSE QualityFromSizes

\* C21 amended: the score is 0 for fewer than 2 swings; for 2 swings or
\* more it is 0.5 when none of the last 10 swings has a nonzero size, and
\* 0.5 + 0.5 x (1 - (max - min)/max) over the nonzero sizes among the last
\* 10 swings otherwise, a value in [0.5, 1].
C21_HalfWithoutSizes ==
    QualityReturned =>
        IF Len(args.swing_points) < 2 THEN ret = Ratio(0, 1)
        ELSE IF SizedRecent = {} THEN ret = Ratio(1, 2)
        ELSE QualityFromSizes

\* C21 witness: twelve swings of which the first two, outside the last 10,
\* have a size and none of the last 10 has
C21_Witness ==
    /\ QualityReturned
    /\ Len(args.swing_points) = 12
    /\ args.swing_points[1].swing_size = 12
    /\ args.swing_points[2].swing_size = 4
    /\ SizedRecent = {}
    /\ ret = Ratio(1, 2)

\* a sized swing outside the last 10 and two different sizes within them
QualityOverWindow ==
    /\ QualityReturned
    /\ Len(args.swing_points) > 10
    /\ args.swing_points[1].swing_size = 12
    /\ \A i \in SizedRecent : args.swing_points[i].swing_size = 4
    /\ SizedRecent # {}
    /\ ret = Ratio(1, 1)

-----------------------------------------------------------------------------
(* The calls of detect_zones on a quiet series followed by any candles *)

\* a doji, a strong bullish candle, a moderate bearish candle, a spike, a
\* bullish impulse candle that dips below the candles before it, a bearish
\* one that rises above them and a flat candle
ScanCandles ==
    {Candle(0, 100, 104, 96, 100), Candle(0, 100, 124, 100, 120),
     Candle(0, 100, 104, 72, 80), Candle(0, 100, 132, 96, 104),
     Candle(0, 100, 124, 92, 120), Candle(0, 100, 108, 80, 80),
     Candle(0, 100, 100, 100, 100)}

\* number of candles after the quiet ones
ScanTailLen == 4

\* number of quiet candles, with which the shortest series has
\* ZoneMinCandles candles
ScanQuietLen == 6

\* hours from a candle to the next
ScanCandleHours == 48

ScanPrices == {100, 124}

\* the quiet candles and then the candles of tail, one every
\* ScanCandleHours hours
ScanSeries(tail) ==
    [i \in 1..(ScanQuietLen + Len(tail)) |->
        [(IF i <= ScanQuietLen THEN Candle(0, 100, 104, 96, 100)
          ELSE tail[i - ScanQuietLen])
         EXCEPT !.timestamp = i * ScanCandleHours * MsPerHour]]

InitScan == Idle /\ cfg = DEFAULT_SMC_CONFIG

CallScanZones ==
    /\ op = "idle"
    /\ \E tail \in [1..ScanTailLen -> ScanCandles],
          control \in {"buyers", "sellers", "neutral"},
          current_price \in ScanPrices, filter_overlaps \in BOOLEAN :
        /\ op' = "detect_zones"
        /\ args' = [candles |-> ScanSeries(tail), control |-> control,
                    current_price |-> current_price,
                    filter_overlaps |-> filter_overlaps]
        /\ ret' = detect_zones(ScanSeries(tail), control, current_price,
                               filter_overlaps)
    /\ UNCHANGED <<cfg, clock, results, scanner, calls>>

NextScan == CallScanZones

SpecScan == InitScan /\ [][NextScan]_vars

-----------------------------------------------------------------------------
(* Claims about the zones of detect_zones *)

ZonesReturned == op = "detect_zones"

\* some candle of the call from number from on (numbered from 0) has a low
\* below the bottom of the demand zone z, or a high above the top of the
\* supply zone z
BrokenFrom(z, from) ==
    \E j \in (from + 1)..Len(args.candles) :
        IF z.type = "demand" THEN args.candles[j].low < z.bottom_price
        ELSE args.candles[j].high > z.top_price

\* C22: a zone of detect_zones is flagged mitigated exactly when some
\* candle later than its origin candle, the impulse candle that created
\* the zone included, has a low strictly below the bottom of the DEMAND
\* zone or a high strictly above the top of the SUPPLY zone.
C22_MitigatedFromOrigin ==
    ZonesReturned =>
        \A z \in Range(ret.all_zones) :
            z.mitigated <=> BrokenFrom(z, z.origin_candle_index + 1)

\* the same with the candles later than the impulse candle, which is the
\* candle after the origin candle
MitigatedAfterImpulse ==
    ZonesReturned =>
        \A z \in Range(ret.all_zones) :
            z.mitigated <=> BrokenFrom(z, z.origin_candle_index + 2)

\* a demand zone whose impulse candle dips below its bottom and that no
\* later candle breaks is reported unmitigated
BrokenByImpulseOnly ==
    /\ ZonesReturned
    /\ \E z \in Range(ret.all_zones) :
          /\ z.type = "demand"
          /\ ~z.mitigated
          /\ args.candles[z.origin_candle_index + 2].low < z.bottom_price
          /\ z \in Range(ret.tradable_zones)

\* the age of the zone z in milliseconds at the last candle of the call
AgeAtLastCandle(z) ==
    IF z.created_at = 0 THEN 0
    ELSE args.candles[Len(args.candles)].timestamp - z.created_at

\* the freshness 1 - age / 168 h of z at the last candle is 0.1 or more:
\* the age is at most nine tenths of 168 h
FreshAtLastCandle(z) ==
    AgeAtLastCandle(z) <= 9 * ((DefaultMaxAgeHours * MsPerHour) \div 10)

\* |current_price - mid_price| < 3 x zone_size
WithinReach(z) ==
    \/ /\ 2 * args.current_price >= z.top_price + z.bottom_price
       /\ 2 * args.current_price - (z.top_price + z.bottom_price)
             < 6 * (z.top_price - z.bottom_price)
    \/ /\ 2 * args.current_price < z.top_price + z.bottom_price
       /\ (z.top_price + z.bottom_price) - 2 * args.current_price
             < 6 * (z.top_price - z.bottom_price)

MatchesControl(z) ==
    \/ z.type = "demand" /\ args.control \in {"buyers", "neutral"}
    \/ z.type = "supply" /\ args.control \in {"sellers", "neutral"}

\* C23: the tradable zones of detect_zones are the zones of all_zones that
\* are unmitigated, have a freshness of 0.1 or more at the last candle, lie
\* strictly within 3 zone sizes of the current price and match the control
\* (DEMAND under buyers or neutral, SUPPLY under sellers or neutral); every
\* tradable zone has a strictly positive size.
C23_TradableExactly ==
    ZonesReturned =>
        /\ \A z \in Range(ret.tradable_zones) :
              /\ z \in Range(ret.all_zones)
              /\ z.top_price - z.bottom_price > 0
        /\ \A z \in Range(ret.all_zones) :
              z \in Range(ret.tradable_zones) <=>
                  /\ ~z.mitigated
                  /\ FreshAtLastCandle(z)
                  /\ WithinReach(z)
                  /\ MatchesControl(z)

\* C23 witness: under buyers a tradable demand zone next to an unmitigated
\* demand zone within reach that is too old
C23_Witness ==
    /\ ZonesReturned
    /\ args.control = "buyers"
    /\ ret.tradable_zones # << >>
    /\ \E z \in Range(ret.all_zones) :
          /\ z.type = "demand" /\ ~z.mitigated /\ WithinReach(z)
          /\ ~FreshAtLastCandle(z)
          /\ z \notin Range(ret.tradable_zones)

\* an unmitigated zone of size 0 at the current price, not tradable
ZeroSizeZoneAtPrice ==
    /\ ZonesReturned
    /\ \E z \in Range(ret.all_zones) :
          /\ ~z.mitigated /\ FreshAtLastCandle(z) /\ MatchesControl(z)
          /\ z.top_price = z.bottom_price
          /\ z.top_price = args.current_price
          /\ z \notin Range(ret.tradable_zones)

\* an unmitigated fresh zone exactly 3 zone sizes from the current price
ZoneOnEdgeOfReach ==
    /\ ZonesReturned
    /\ \E z \in Range(ret.all_zones) :
          /\ ~z.mitigated /\ FreshAtLastCandle(z) /\ MatchesControl(z)
          /\ z.top_price > z.bottom_price
          /\ 2 * args.current_price - (z.top_price + z.bottom_price)
                = 6 * (z.top_price - z.bottom_price)

-----------------------------------------------------------------------------
(* The calls of SMCStrategy._select_timeframes *)

\* series of the candles numbered by shape whose clarity, for short
\* series, is 39, 40, 49 and 50
SelectCharts ==
    {<<3, 6, 5, 1, 3, 6, 3, 3, 2, 7>>, <<1, 2, 5, 5, 4, 2, 2, 1, 7, 1>>,
     <<5, 2, 1, 5, 1, 6, 4, 6, 1, 3>>, <<4, 5, 2, 3, 1, 3, 2, 2, 3, 4>>}

\* a timeframe without candles or with the candles of one of the series
SelectSeries == {<< >>} \cup {Chart(chart, 4) : chart \in SelectCharts}

InitSelect ==
    /\ Idle
    /\ cfg = [DEFAULT_SMC_CONFIG EXCEPT !.min_candles = 10,
                                        !.swing_lookback = 1]

CallSelectTimeframes ==
    /\ op = "idle"
    /\ \E d1 \in SelectSeries, h4 \in SelectSeries, m15 \in SelectSeries,
          m5 \in SelectSeries :
        LET data == [MultiTimeframeData EXCEPT
                        !.d1 = d1, !.h4 = h4, !.m15 = m15, !.m5 = m5]
        IN  /\ op' = "_select_timeframes"
            /\ args' = [data |-> data]
            /\ ret' = _select_timeframes(data, cfg)
    /\ UNCHANGED <<cfg, clock, results, scanner, calls>>

NextSelect == CallSelectTimeframes

SpecSelect == InitSelect /\ [][NextSelect]_vars

-----------------------------------------------------------------------------
(* Claims about SMCStrategy._select_timeframes *)

\* the clarity score of a candidate series, 0 for a series without candles
ScoreOfSeries(candles, timeframe) ==
    IF Len(candles) = 0 THEN 0
    ELSE analyze_clarity(candles, timeframe, cfg).score

\* C24: is_clear holds exactly when the scores of the context (1D), the
\* major-zone (4H) and the zone-identification (15M) series are 40 or more
\* each, whatever the entry-refinement (5M) score is; each role takes its
\* primary timeframe (4H, 15M, 5M) exactly when the score of that timeframe
\* is 50 or more and its fallback (2H, 30M, 3M) otherwise; a series without
\* candles has score 0.
C24_SelectionByScores ==
    op = "_select_timeframes" =>
        \E d1 \in {ScoreOfSeries(args.data.d1, "1D")},
           h4 \in {ScoreOfSeries(args.data.h4, "4H")},
           m15 \in {ScoreOfSeries(args.data.m15, "15M")},
           m5 \in {ScoreOfSeries(args.data.m5, "5M")} :
            /\ ret.daily_context_clarity = d1
            /\ ret.major_zone_clarity = h4
            /\ ret.zone_identification_clarity = m15
            /\ ret.entry_refinement_clarity = m5
            /\ ret.is_clear <=> (d1 >= 40 /\ h4 >= 40 /\ m15 >= 40)
            /\ ret.major_zone_tf = "4H" <=> h4 >= 50
            /\ ret.major_zone_tf = "2H" <=> h4 < 50
            /\ ret.zone_identification_tf = "15M" <=> m15 >= 50
            /\ ret.zone_identification_tf = "30M" <=> m15 < 50
            /\ ret.entry_refinement_tf = "5M" <=> m5 >= 50
            /\ ret.entry_refinement_tf = "3M" <=> m5 < 50

\* C24 witness: a clear selection on scores 40, 49 and 50 without 5M
\* candles, the major zones on the fallback and the zone identification on
\* the primary timeframe
C24_Witness ==
    /\ op = "_select_timeframes"
    /\ args.data.m5 = << >>
    /\ ret.is_clear
    /\ ret.daily_context_clarity = 40
    /\ ret.major_zone_clarity = 49
    /\ ret.zone_identification_clarity = 50
    /\ ret.entry_refinement_clarity = 0
    /\ ret.major_zone_tf = "2H"
    /\ ret.zone_identification_tf = "15M"
    /\ ret.entry_refinement_tf = "3M"

\* a score of 39 on one of the three gating series makes the selection
\* unclear
UnclearAtThirtyNine ==
    /\ op = "_select_timeframes"
    /\ ~ret.is_clear
    /\ ret.daily_context_clarity = 50
    /\ ret.major_zone_clarity = 39
    /\ ret.zone_identification_clarity = 50
    /\ ret.entry_refinement_clarity = 50

-----------------------------------------------------------------------------
(* The calls of analyze_clarity under configurations that differ in their
   thresholds and weightings *)

\* longest candle series handed to analyze_clarity
ClarityMaxLen == 11

\* candles a series needs under these configurations
ClarityMinCandles == 8

ClaritySeries ==
    {Prefix(Chart(chart, 4), n) :
        chart \in AnalyzeCharts \cup SelectCharts, n \in 0..ClarityMaxLen}

ClarityConfigs ==
    {[DEFAULT_SMC_CONFIG EXCEPT
         !.min_candles = ClarityMinCandles, !.swing_lookback = 1,
         !.min_clarity_score = score, !.min_swing_points_required = swings,
         !.min_zones_required = zones, !.max_zones_for_clarity = max_zones,
         !.use_recency_weighting = use_recency,
         !.use_swing_size_weighting = use_size] :
        score \in {0, 40, 60}, swings \in {0, 4}, zones \in {0, 1, 2},
        max_zones \in {1, 5}, use_recency \in BOOLEAN, use_size \in BOOLEAN}

InitClarity == Idle /\ cfg \in ClarityConfigs

CallClarity ==
    /\ op = "idle"
    /\ \E candles \in ClaritySeries :
        /\ op' = "analyze_clarity"
        /\ args' = [candles |-> candles, timeframe |-> "15M"]
        /\ ret' = analyze_clarity(candles, "15M", cfg)
    /\ UNCHANGED <<cfg, clock, results, scanner, calls>>

NextClarity == CallClarity

SpecClarity == InitClarity /\ [][NextClarity]_vars

-----------------------------------------------------------------------------
(* Claims about the ranges of analyze_clarity *)

ClarityReturned == op = "analyze_clarity"

\* a ratio between 0 and 1
InUnit(r) == r.num >= 0 /\ r.num <= r.den /\ r.den > 0

\* the classified swings and the unmitigated zones of the series of the call
ClaritySwings ==
    classify_swing_points(detect_swing_points(args.candles, cfg.swing_lookback))

ClarityUnmitigated ==
    IF args.candles = << >> THEN << >>
    ELSE SelectSeq(detect_zones(args.candles, "neutral",
                                args.candles[Len(args.candles)].close,
                                cfg.filter_overlapping_zones).all_zones,
                   LAMBDA z : ~z.mitigated)

\* the score is a whole number from 0 to 100 and the four measures lie
\* between 0 and 1
ClarityInRange ==
    /\ ret.score \in 0..100
    /\ InUnit(ret.trend_consistency)
    /\ InUnit(ret.zone_clarity)
    /\ InUnit(ret.structure_clarity)
    /\ InUnit(calculate_swing_quality_score(ClaritySwings))

\* the three thresholds of is_clear
ClarityThresholdsMet ==
    /\ ret.score >= cfg.min_clarity_score
    /\ Len(ClaritySwings) >= cfg.min_swing_points_required
    /\ Len(ClarityUnmitigated) >= cfg.min_zones_required

\* C27 as stated: for every series and configuration the score is an
\* integer in 0..100, each measure lies in [0, 1], and is_clear holds
\* exactly when the score, the number of classified swings and the number
\* of unmitigated zones reach their thresholds.  A series of fewer than
\* min_candles candles is not clear even where the thresholds are 0.
C27_ClarityRanges ==
    ClarityReturned =>
        /\ ClarityInRange
        /\ ret.is_clear <=> ClarityThresholdsMet

\* C27: the score is an integer in 0..100 and each measure lies in [0, 1];
\* for a series of min_candles candles or more is_clear holds exactly when
\* the score, the number of classified swings and the number of unmitigated
\* zones reach their thresholds, and a shorter series has score 0 and is
\* not clear.
C27_ClarityRangesWithData ==
    ClarityReturned =>
        /\ ClarityInRange
        /\ Len(args.candles) >= cfg.min_candles =>
               (ret.is_clear <=> ClarityThresholdsMet)
        /\ Len(args.candles) < cfg.min_candles =>
               (~ret.is_clear /\ ret.score = 0)

\* a clear series under the default thresholds whose measures are neither
\* all 0 nor all 1
C27_Witness ==
    /\ ClarityReturned /\ ret.is_clear
    /\ cfg.min_clarity_score = 60 /\ cfg.min_swing_points_required = 4
    /\ cfg.min_zones_required = 1
    /\ ret.score < 100
    /\ ret.structure_clarity.num > 0
    /\ ret.zone_clarity.num > 0

\* a series with the score and the swings but one unmitigated zone too few
UnclearForZonesOnly ==
    /\ ClarityReturned /\ ~ret.is_clear
    /\ Len(args.candles) >= cfg.min_candles
    /\ ret.score >= cfg.min_clarity_score
    /\ Len(ClaritySwings) >= cfg.min_swing_points_required
    /\ Len(ClarityUnmitigated) < cfg.min_zones_required

\* a series too short to be analyzed under thresholds of 0
ShortSeriesMeetsThresholds ==
    /\ ClarityReturned /\ ~ret.is_clear
    /\ Len(args.candles) < cfg.min_candles
    /\ ClarityThresholdsMet

-----------------------------------------------------------------------------
(* scanner.py: SignalScanner.scan_markets.  The calls are coroutines on one
   event loop: a call runs alone from one await to the next, so each action
   is the code between two awaits. *)

\* concurrent callers of scan_markets on the one scanner
ScannerMaxCalls == 2

\* instruments in open markets, at most
ScannerMaxInstruments == 2

\* scans completed, at most
ScannerMaxScans == 2

\* the latest reading of the clock
ScannerMaxClock == 2

ScannerCalls == 1..ScannerMaxCalls

\* a caller outside scan_markets, with what its last call returned
NotCalled(returned) ==
    [pc |-> "idle", left |-> 0, tradeable |-> 0, new_signals |-> 0,
     all_pending |-> 0, errors |-> 0, returned |-> returned]

\* the guard that lets a call in wherever it stands
ScanInProgress_unchecked(s) == FALSE

\* if self.is_scanning
ScanInProgress(s) == s.is_scanning

\* finally: self.is_scanning = False
ScanFinally(s) == [s EXCEPT !.is_scanning = FALSE]

\* self.last_scan_time = time.time(); self.scan_count += 1
ScanCompleted(s, now) ==
    [s EXCEPT !.last_scan_time = Some(now), !.scan_count = @ + 1]

ScanSkippedResult == [status |-> "skipped", reason |-> "scan_in_progress"]

ScanCompletedResult(k, scan_number) ==
    [status |-> "completed", signals_generated |-> k.new_signals,
     pending_setups |-> k.all_pending, instruments_scanned |-> k.tradeable,
     errors |-> k.errors, scan_number |-> scan_number]

\* the call is suspended at an await and has returned nothing yet
ScanAwaiting == [status |-> "awaiting"]

\* where a call stands once the await it stood at is over: at the next await
\* of the same loop, at the first await of the next loop that has one, or
\* at the return
ScanAdvance(k) ==
    LET to_watchlist ==
            IF k.all_pending > 0
            THEN [k EXCEPT !.pc = "watchlist", !.left = k.all_pending]
            ELSE [k EXCEPT !.pc = "return"]
    IN  IF k.left > 0 THEN k
        ELSE IF k.pc = "analyze"
        THEN IF k.new_signals > 0
             THEN [k EXCEPT !.pc = "save", !.left = k.new_signals]
             ELSE to_watchlist
        ELSE IF k.pc = "save" THEN to_watchlist
        ELSE [k EXCEPT !.pc = "return"]

\* the code of call c from the end of an await to the next await or to the
\* return, s being the scanner and k the call as the await left them
ScanProceed(c, step, s, k) ==
    /\ op' = "scan_markets"
    /\ args' = [call |-> c, step |-> step, scanner |-> scanner]
    /\ \E next \in {ScanAdvance(k)} :
        IF next.pc = "return"
        THEN \E now \in {clock, IF clock < ScannerMaxClock
                                THEN clock + 1 ELSE clock} :
                \E done \in {ScanCompleted(s, now)} :
                    /\ clock' = now
                    /\ scanner' = ScanFinally(done)
                    /\ ret' = ScanCompletedResult(next, done.scan_count)
                    /\ calls' = [calls EXCEPT ![c] = NotCalled("completed")]
        ELSE /\ scanner' = s
             /\ ret' = ScanAwaiting
             /\ calls' = [calls EXCEPT ![c] = next]
             /\ UNCHANGED clock
    /\ UNCHANGED <<cfg, results>>

\* an exception leaves the try block of call c: "error" for an Exception,
\* which the except clause turns into a result, "cancelled" for the
\* CancelledError of a cancelled task, which goes on to the caller
ScanRaise(c, step, kind) ==
    /\ op' = "scan_markets"
    /\ args' = [call |-> c, step |-> step, scanner |-> scanner]
    /\ scanner' = ScanFinally([scanner EXCEPT !.is_scanning = TRUE])
    /\ ret' = [status |-> kind]
    /\ calls' = [calls EXCEPT ![c] = NotCalled(kind)]
    /\ UNCHANGED <<cfg, clock, results>>

InitScanner ==
    /\ op = "idle" /\ args = << >> /\ ret = << >>
    /\ cfg = DEFAULT_SMC_CONFIG /\ clock = 0 /\ results = << >>
    /\ scanner = SignalScanner
    /\ calls = [c \in ScannerCalls |-> NotCalled("nothing")]

\* a caller calls scan_markets: the code down to the first await, or down
\* to the return where no instrument is in an open market
ScanCall(c) ==
    /\ calls[c].pc = "idle"
    /\ scanner.scan_count < ScannerMaxScans
    /\ IF ScanInProgress(scanner)
       THEN /\ op' = "scan_markets"
            /\ args' = [call |-> c, step |-> "call", scanner |-> scanner]
            /\ ret' = ScanSkippedResult
            /\ calls' = [calls EXCEPT ![c] = NotCalled("skipped")]
            /\ UNCHANGED <<cfg, clock, results, scanner>>
       ELSE \/ \E tradeable \in 0..ScannerMaxInstruments :
                ScanProceed(c, "call",
                    [scanner EXCEPT !.is_scanning = TRUE],
                    [pc |-> "analyze", left |-> tradeable,
                     tradeable |-> tradeable, new_signals |-> 0,
                     all_pending |-> 0, errors |-> 0,
                     returned |-> calls[c].returned])
            \* get_stats or filter_tradeable_instruments raises
            \/ ScanRaise(c, "call", "error")

\* await self._analyze_instrument(instrument) is over: with the signals and
\* pending setups of the instrument, or with an exception the loop records
ScanAnalyzed(c) ==
    /\ calls[c].pc = "analyze"
    /\ \/ \E signals \in 0..1, pending \in 0..1 :
            ScanProceed(c, "resume", scanner,
                [calls[c] EXCEPT !.left = @ - 1,
                                 !.new_signals = @ + signals,
                                 !.all_pending = @ + pending])
       \/ ScanProceed(c, "resume", scanner,
                [calls[c] EXCEPT !.left = @ - 1, !.errors = @ + 1])

\* await self._save_and_notify_signal(signal) is over; it raises nothing
ScanSaved(c) ==
    /\ calls[c].pc = "save"
    /\ ScanProceed(c, "resume", scanner, [calls[c] EXCEPT !.left = @ - 1])

\* await self._save_watchlist_signal(setup) is over; it raises nothing
ScanWatchlisted(c) ==
    /\ calls[c].pc = "watchlist"
    /\ ScanProceed(c, "resume", scanner, [calls[c] EXCEPT !.left = @ - 1])

\* the task of call c is cancelled at its await, or the code after the
\* await raises outside the inner try blocks
ScanFailed(c) ==
    /\ calls[c].pc \in {"analyze", "save", "watchlist"}
    /\ \E kind \in {"error", "cancelled"} : ScanRaise(c, "resume", kind)

NextScanner ==
    \E c \in ScannerCalls :
        \/ ScanCall(c)
        \/ ScanAnalyzed(c)
        \/ ScanSaved(c)
        \/ ScanWatchlisted(c)
        \/ ScanFailed(c)

SpecScanner == InitScanner /\ [][NextScanner]_vars

-----------------------------------------------------------------------------
(* Claims about SignalScanner.scan_markets *)

\* the callers inside the scan body
InScanBody == {c \in ScannerCalls : calls[c].pc # "idle"}

\* C30: scan_markets excludes itself: whatever the interleaving of the
\* calls on one scanner, one call at most is inside the scan body; a call
\* made while is_scanning is true returns status "skipped" and leaves
\* is_scanning, scan_count and last_scan_time as they were; and when a scan
\* is over, completed or failed with an exception, is_scanning is false
\* again, so that a later call finds the scanner free.
C30_ScanExclusive ==
    op = "scan_markets" =>
        /\ Cardinality(InScanBody) <= 1
        /\ scanner.is_scanning <=> InScanBody # {}
        /\ (args.step = "call" /\ args.scanner.is_scanning) =>
              /\ ret = ScanSkippedResult
              /\ scanner = args.scanner
        /\ ret.status = "skipped" =>
              (args.scanner.is_scanning /\ scanner = args.scanner)
        /\ ret.status \in {"completed", "error", "cancelled"} =>
              ~scanner.is_scanning
        /\ ret.status = "completed" =>
              scanner.scan_count = args.scanner.scan_count + 1

\* a call skipped while another call stands at the await of a save
C30_Witness ==
    /\ op = "scan_markets"
    /\ args.step = "call"
    /\ ret.status = "skipped"
    /\ \E c \in ScannerCalls \ {args.call} :
          calls[c].pc = "save" /\ calls[c].returned = "skipped"

\* a scan called and completed after the scan of the other caller failed
ScanAfterFailure ==
    /\ op = "scan_markets"
    /\ args.step = "call"
    /\ ret.status = "completed"
    /\ \E c \in ScannerCalls \ {args.call} :
          calls[c].returned \in {"error", "cancelled"}

\* a scan cancelled at an await, the scanner free again
CancelledScanFreesScanner ==
    /\ op = "scan_markets"
    /\ args.step = "resume"
    /\ ret.status = "cancelled"
    /\ args.scanner.is_scanning /\ ~scanner.is_scanning

====
